---- MODULE Spec2Model ----
(***************************************************************************)
(* Model of the dialect engine of backend/dialect_tts/dialect_detector.py: *)
(* DialectDetector.detect_dialect and suggest_dialect_conversion.          *)
(*                                                                         *)
(* A Python str is a sequence of one-character tokens.  An ASCII           *)
(* character is its own token; any other character is written              *)
(* <romanisation>_<code point>, e.g. "nong_4FAC" for U+4FAC.  The literal  *)
(* tables below are transliterated character by character from the source; *)
(* the comment above each table gives the source lines and the original    *)
(* text.                                                                   *)
(*                                                                         *)
(* A Python float is modelled by the exact rational <<numerator,           *)
(* denominator>> in lowest terms; the arithmetic of the scoring code is    *)
(* carried out in the order of the source.                                 *)
(***************************************************************************)
EXTENDS Integers, Sequences, FiniteSets, TLC

(***************************************************************************)
(* DialectType (dialect_detector.py:17-23): the enum members, by value.    *)
(***************************************************************************)
STANDARD == "standard"
SHANGHAI == "shanghai"
SICHUAN == "sichuan"
GYEONGSANG == "gyeongsang"
JEJU == "jeju"
AUTO == "auto"

DialectType ==
    {STANDARD, SHANGHAI, SICHUAN, GYEONGSANG, JEJU, AUTO}

(***************************************************************************)
(* The literal tables of DialectDetector.__init__ and of                   *)
(* suggest_dialect_conversion.                                             *)
(***************************************************************************)
\* src/backend/dialect_tts/dialect_detector.py:40-44  SHANGHAI.vocabulary = 侬 阿拉 今朝 蛮好 再会 啥 哪能 啥地方 谢谢侬 做生活 困觉 屋里 学堂 伊 伊拉 个 个能 个么 个辰光
SHANGHAI_vocabulary ==
    <<
      <<"nong_4FAC">>, <<"a_963F", "la_62C9">>, <<"jin_4ECA", "zhao_671D">>,
      <<"man_86EE", "hao_597D">>, <<"zai_518D", "hui_4F1A">>, <<"sha_5565">>,
      <<"na_54EA", "neng_80FD">>, <<"sha_5565", "di_5730", "fang_65B9">>,
      <<"xie_8C22", "xie_8C22", "nong_4FAC">>, <<"zuo_505A", "sheng_751F", "huo_6D3B">>,
      <<"kun_56F0", "jiao_89C9">>, <<"wu_5C4B", "li_91CC">>, <<"xue_5B66", "tang_5802">>,
      <<"yi_4F0A">>, <<"yi_4F0A", "la_62C9">>, <<"ge_4E2A">>, <<"ge_4E2A", "neng_80FD">>,
      <<"ge_4E2A", "me_4E48">>, <<"ge_4E2A", "chen_8FB0", "guang_5149">>
    >>

\* src/backend/dialect_tts/dialect_detector.py:45-48  SHANGHAI.grammar = 啥地方 哪能 做生活 困觉 个能 个么 个辰光 个搭 个里 个面
SHANGHAI_grammar ==
    <<
      <<"sha_5565", "di_5730", "fang_65B9">>, <<"na_54EA", "neng_80FD">>,
      <<"zuo_505A", "sheng_751F", "huo_6D3B">>, <<"kun_56F0", "jiao_89C9">>,
      <<"ge_4E2A", "neng_80FD">>, <<"ge_4E2A", "me_4E48">>,
      <<"ge_4E2A", "chen_8FB0", "guang_5149">>, <<"ge_4E2A", "da_642D">>,
      <<"ge_4E2A", "li_91CC">>, <<"ge_4E2A", "mian_9762">>
    >>

\* src/backend/dialect_tts/dialect_detector.py:49-51  SHANGHAI.pronunciation = zh→z ch→c sh→s r→l an→ang en→eng
SHANGHAI_pronunciation ==
    <<
      "zh->z", "ch->c", "sh->s", "r->l", "an->ang", "en->eng"
    >>

\* src/backend/dialect_tts/dialect_detector.py:52-54  SHANGHAI.unique_expressions = 侬好 今朝 蛮好 阿拉 伊拉 个能
SHANGHAI_unique_expressions ==
    <<
      <<"nong_4FAC", "hao_597D">>, <<"jin_4ECA", "zhao_671D">>, <<"man_86EE", "hao_597D">>,
      <<"a_963F", "la_62C9">>, <<"yi_4F0A", "la_62C9">>, <<"ge_4E2A", "neng_80FD">>
    >>

\* src/backend/dialect_tts/dialect_detector.py:57-60  SICHUAN.vocabulary = 巴适 安逸 要得 瓜娃子 哈儿 锤子 整 得行 咋个 啥子 啷个 巴适得很
SICHUAN_vocabulary ==
    <<
      <<"ba_5DF4", "shi_9002">>, <<"an_5B89", "yi_9038">>, <<"yao_8981", "de_5F97">>,
      <<"gua_74DC", "wa_5A03", "zi_5B50">>, <<"ha_54C8", "er_513F">>,
      <<"chui_9524", "zi_5B50">>, <<"zheng_6574">>, <<"de_5F97", "hang_884C">>,
      <<"za_548B", "ge_4E2A">>, <<"sha_5565", "zi_5B50">>, <<"lang_5577", "ge_4E2A">>,
      <<"ba_5DF4", "shi_9002", "de_5F97", "hen_5F88">>
    >>

\* src/backend/dialect_tts/dialect_detector.py:61-63  SICHUAN.grammar = 巴适得很 要得不 咋个整 啷个办 啥子嘛
SICHUAN_grammar ==
    <<
      <<"ba_5DF4", "shi_9002", "de_5F97", "hen_5F88">>, <<"yao_8981", "de_5F97", "bu_4E0D">>,
      <<"za_548B", "ge_4E2A", "zheng_6574">>, <<"lang_5577", "ge_4E2A", "ban_529E">>,
      <<"sha_5565", "zi_5B50", "ma_561B">>
    >>

\* src/backend/dialect_tts/dialect_detector.py:64-66  SICHUAN.pronunciation = n→l l→n tone_merging rising_tone
SICHUAN_pronunciation ==
    <<
      "n->l", "l->n", "tone_merging", "rising_tone"
    >>

\* src/backend/dialect_tts/dialect_detector.py:67-69  SICHUAN.unique_expressions = 巴适 安逸 要得 瓜娃子 哈儿
SICHUAN_unique_expressions ==
    <<
      <<"ba_5DF4", "shi_9002">>, <<"an_5B89", "yi_9038">>, <<"yao_8981", "de_5F97">>,
      <<"gua_74DC", "wa_5A03", "zi_5B50">>, <<"ha_54C8", "er_513F">>
    >>

\* src/backend/dialect_tts/dialect_detector.py:72-75  GYEONGSANG.vocabulary = 오이소 모하노 어디가 뭐하노 어떻게 왜그래 그래서 그러면 그런데 그러니까
GYEONGSANG_vocabulary ==
    <<
      <<"o_C624", "i_C774", "so_C18C">>, <<"mo_BAA8", "ha_D558", "no_B178">>,
      <<"eo_C5B4", "di_B514", "ga_AC00">>, <<"mwo_BB50", "ha_D558", "no_B178">>,
      <<"eo_C5B4", "tteoh_B5BB", "ge_AC8C">>, <<"wae_C65C", "geu_ADF8", "rae_B798">>,
      <<"geu_ADF8", "rae_B798", "seo_C11C">>, <<"geu_ADF8", "reo_B7EC", "myeon_BA74">>,
      <<"geu_ADF8", "reon_B7F0", "de_B370">>,
      <<"geu_ADF8", "reo_B7EC", "ni_B2C8", "kka_AE4C">>
    >>

\* src/backend/dialect_tts/dialect_detector.py:76-78  GYEONGSANG.grammar = 오이소 모하노 어디가 뭐하노 왜그래
GYEONGSANG_grammar ==
    <<
      <<"o_C624", "i_C774", "so_C18C">>, <<"mo_BAA8", "ha_D558", "no_B178">>,
      <<"eo_C5B4", "di_B514", "ga_AC00">>, <<"mwo_BB50", "ha_D558", "no_B178">>,
      <<"wae_C65C", "geu_ADF8", "rae_B798">>
    >>

\* src/backend/dialect_tts/dialect_detector.py:79-81  GYEONGSANG.pronunciation = rising_tone final_rising vowel_lengthening
GYEONGSANG_pronunciation ==
    <<
      "rising_tone", "final_rising", "vowel_lengthening"
    >>

\* src/backend/dialect_tts/dialect_detector.py:82-84  GYEONGSANG.unique_expressions = 오이소 모하노 어디가 뭐하노
GYEONGSANG_unique_expressions ==
    <<
      <<"o_C624", "i_C774", "so_C18C">>, <<"mo_BAA8", "ha_D558", "no_B178">>,
      <<"eo_C5B4", "di_B514", "ga_AC00">>, <<"mwo_BB50", "ha_D558", "no_B178">>
    >>

\* src/backend/dialect_tts/dialect_detector.py:87-90  JEJU.vocabulary = 혼저 옵서예 하르방 할망 고사리 돌하르방 돌하르방이 돌하르방이야 돌하르방이요
JEJU_vocabulary ==
    <<
      <<"hon_D63C", "jeo_C800">>, <<"op_C635", "seo_C11C", "ye_C608">>,
      <<"ha_D558", "reu_B974", "bang_BC29">>, <<"hal_D560", "mang_B9DD">>,
      <<"go_ACE0", "sa_C0AC", "ri_B9AC">>, <<"dol_B3CC", "ha_D558", "reu_B974", "bang_BC29">>,
      <<"dol_B3CC", "ha_D558", "reu_B974", "bang_BC29", "i_C774">>,
      <<"dol_B3CC", "ha_D558", "reu_B974", "bang_BC29", "i_C774", "ya_C57C">>,
      <<"dol_B3CC", "ha_D558", "reu_B974", "bang_BC29", "i_C774", "yo_C694">>
    >>

\* src/backend/dialect_tts/dialect_detector.py:91-93  JEJU.grammar = 혼저 옵서예 하르방 할망 돌하르방
JEJU_grammar ==
    <<
      <<"hon_D63C", "jeo_C800", " ", "op_C635", "seo_C11C", "ye_C608">>,
      <<"ha_D558", "reu_B974", "bang_BC29">>, <<"hal_D560", "mang_B9DD">>,
      <<"dol_B3CC", "ha_D558", "reu_B974", "bang_BC29">>
    >>

\* src/backend/dialect_tts/dialect_detector.py:94-96  JEJU.pronunciation = vowel_merging consonant_weakening tone_simplification
JEJU_pronunciation ==
    <<
      "vowel_merging", "consonant_weakening", "tone_simplification"
    >>

\* src/backend/dialect_tts/dialect_detector.py:97-99  JEJU.unique_expressions = 혼저 옵서예 하르방 할망 돌하르방
JEJU_unique_expressions ==
    <<
      <<"hon_D63C", "jeo_C800", " ", "op_C635", "seo_C11C", "ye_C608">>,
      <<"ha_D558", "reu_B974", "bang_BC29">>, <<"hal_D560", "mang_B9DD">>,
      <<"dol_B3CC", "ha_D558", "reu_B974", "bang_BC29">>
    >>

\* src/backend/dialect_tts/dialect_detector.py:102-106  STANDARD.vocabulary = 你好 今天 很好 我们 你们 什么 怎么 哪里 谢谢 再见 吃饭 睡觉 工作 学习 朋友 家 学校 医院 商店 银行
STANDARD_vocabulary ==
    <<
      <<"ni_4F60", "hao_597D">>, <<"jin_4ECA", "tian_5929">>, <<"hen_5F88", "hao_597D">>,
      <<"wo_6211", "men_4EEC">>, <<"ni_4F60", "men_4EEC">>, <<"shen_4EC0", "me_4E48">>,
      <<"zen_600E", "me_4E48">>, <<"na_54EA", "li_91CC">>, <<"xie_8C22", "xie_8C22">>,
      <<"zai_518D", "jian_89C1">>, <<"chi_5403", "fan_996D">>, <<"shui_7761", "jiao_89C9">>,
      <<"gong_5DE5", "zuo_4F5C">>, <<"xue_5B66", "xi_4E60">>, <<"peng_670B", "you_53CB">>,
      <<"jia_5BB6">>, <<"xue_5B66", "xiao_6821">>, <<"yi_533B", "yuan_9662">>,
      <<"shang_5546", "dian_5E97">>, <<"yin_94F6", "hang_884C">>
    >>

\* src/backend/dialect_tts/dialect_detector.py:107-109  STANDARD.grammar = 什么地方 怎么 工作 学习 朋友
STANDARD_grammar ==
    <<
      <<"shen_4EC0", "me_4E48", "di_5730", "fang_65B9">>, <<"zen_600E", "me_4E48">>,
      <<"gong_5DE5", "zuo_4F5C">>, <<"xue_5B66", "xi_4E60">>, <<"peng_670B", "you_53CB">>
    >>

\* src/backend/dialect_tts/dialect_detector.py:110-112  STANDARD.pronunciation = zh ch sh r standard_tones
STANDARD_pronunciation ==
    <<
      "zh", "ch", "sh", "r", "standard_tones"
    >>

\* src/backend/dialect_tts/dialect_detector.py:113-115  STANDARD.unique_expressions = 你好 今天 很好 我们 你们
STANDARD_unique_expressions ==
    <<
      <<"ni_4F60", "hao_597D">>, <<"jin_4ECA", "tian_5929">>, <<"hen_5F88", "hao_597D">>,
      <<"wo_6211", "men_4EEC">>, <<"ni_4F60", "men_4EEC">>
    >>

\* src/backend/dialect_tts/dialect_detector.py:224-245  conversion_rules[SHANGHAI] = 你好:侬好 今天:今朝 很好:蛮好 我们:阿拉 你们:侬拉 什么:啥 怎么:哪能 哪里:啥地方 谢谢:谢谢侬 再见:再会 吃饭:吃饭 睡觉:困觉 工作:做生活 学习:读书 朋友:朋友 家:屋里 学校:学堂 医院:医院 商店:店 银行:银行
SHANGHAI_rules ==
    <<
      <<<<"ni_4F60", "hao_597D">>, <<"nong_4FAC", "hao_597D">>>>,
      <<<<"jin_4ECA", "tian_5929">>, <<"jin_4ECA", "zhao_671D">>>>,
      <<<<"hen_5F88", "hao_597D">>, <<"man_86EE", "hao_597D">>>>,
      <<<<"wo_6211", "men_4EEC">>, <<"a_963F", "la_62C9">>>>,
      <<<<"ni_4F60", "men_4EEC">>, <<"nong_4FAC", "la_62C9">>>>,
      <<<<"shen_4EC0", "me_4E48">>, <<"sha_5565">>>>,
      <<<<"zen_600E", "me_4E48">>, <<"na_54EA", "neng_80FD">>>>,
      <<<<"na_54EA", "li_91CC">>, <<"sha_5565", "di_5730", "fang_65B9">>>>,
      <<<<"xie_8C22", "xie_8C22">>, <<"xie_8C22", "xie_8C22", "nong_4FAC">>>>,
      <<<<"zai_518D", "jian_89C1">>, <<"zai_518D", "hui_4F1A">>>>,
      <<<<"chi_5403", "fan_996D">>, <<"chi_5403", "fan_996D">>>>,
      <<<<"shui_7761", "jiao_89C9">>, <<"kun_56F0", "jiao_89C9">>>>,
      <<<<"gong_5DE5", "zuo_4F5C">>, <<"zuo_505A", "sheng_751F", "huo_6D3B">>>>,
      <<<<"xue_5B66", "xi_4E60">>, <<"du_8BFB", "shu_4E66">>>>,
      <<<<"peng_670B", "you_53CB">>, <<"peng_670B", "you_53CB">>>>,
      <<<<"jia_5BB6">>, <<"wu_5C4B", "li_91CC">>>>,
      <<<<"xue_5B66", "xiao_6821">>, <<"xue_5B66", "tang_5802">>>>,
      <<<<"yi_533B", "yuan_9662">>, <<"yi_533B", "yuan_9662">>>>,
      <<<<"shang_5546", "dian_5E97">>, <<"dian_5E97">>>>,
      <<<<"yin_94F6", "hang_884C">>, <<"yin_94F6", "hang_884C">>>>
    >>

\* Variant of SICHUAN_rules: 怎么 is listed before 怎么样.
SICHUAN_rules_short_key_first ==
    <<
      <<<<"hen_5F88", "hao_597D">>, <<"ba_5DF4", "shi_9002">>>>,
      <<<<"ke_53EF", "yi_4EE5">>, <<"yao_8981", "de_5F97">>>>,
      <<<<"zen_600E", "me_4E48">>, <<"lang_5577", "ge_4E2A">>>>,
      <<<<"shen_4EC0", "me_4E48">>, <<"sha_5565", "zi_5B50">>>>,
      <<<<"zen_600E", "me_4E48", "yang_6837">>, <<"lang_5577", "ge_4E2A">>>>,
      <<<<"na_54EA", "li_91CC">>, <<"na_54EA", "da_642D">>>>,
      <<<<"zhe_8FD9", "li_91CC">>, <<"zhe_8FD9", "da_642D">>>>,
      <<<<"na_90A3", "li_91CC">>, <<"na_90A3", "da_642D">>>>,
      <<<<"zhe_8FD9", "ge_4E2A">>, <<"zhe_8FD9", "ge_4E2A">>>>,
      <<<<"na_90A3", "ge_4E2A">>, <<"na_90A3", "ge_4E2A">>>>,
      <<<<"ren_4EBA">>, <<"ren_4EBA">>>>,
      <<<<"dong_4E1C", "xi_897F">>, <<"dong_4E1C", "xi_897F">>>>,
      <<<<"shi_4E8B", "qing_60C5">>, <<"shi_4E8B", "qing_60C5">>>>,
      <<<<"wen_95EE", "ti_9898">>, <<"wen_95EE", "ti_9898">>>>,
      <<<<"ban_529E", "fa_6CD5">>, <<"ban_529E", "fa_6CD5">>>>
    >>

\* src/backend/dialect_tts/dialect_detector.py:246-262  conversion_rules[SICHUAN] = 很好:巴适 可以:要得 怎么样:啷个 什么:啥子 怎么:啷个 哪里:哪搭 这里:这搭 那里:那搭 这个:这个 那个:那个 人:人 东西:东西 事情:事情 问题:问题 办法:办法
SICHUAN_rules ==
    <<
      <<<<"hen_5F88", "hao_597D">>, <<"ba_5DF4", "shi_9002">>>>,
      <<<<"ke_53EF", "yi_4EE5">>, <<"yao_8981", "de_5F97">>>>,
      <<<<"zen_600E", "me_4E48", "yang_6837">>, <<"lang_5577", "ge_4E2A">>>>,
      <<<<"shen_4EC0", "me_4E48">>, <<"sha_5565", "zi_5B50">>>>,
      <<<<"zen_600E", "me_4E48">>, <<"lang_5577", "ge_4E2A">>>>,
      <<<<"na_54EA", "li_91CC">>, <<"na_54EA", "da_642D">>>>,
      <<<<"zhe_8FD9", "li_91CC">>, <<"zhe_8FD9", "da_642D">>>>,
      <<<<"na_90A3", "li_91CC">>, <<"na_90A3", "da_642D">>>>,
      <<<<"zhe_8FD9", "ge_4E2A">>, <<"zhe_8FD9", "ge_4E2A">>>>,
      <<<<"na_90A3", "ge_4E2A">>, <<"na_90A3", "ge_4E2A">>>>,
      <<<<"ren_4EBA">>, <<"ren_4EBA">>>>,
      <<<<"dong_4E1C", "xi_897F">>, <<"dong_4E1C", "xi_897F">>>>,
      <<<<"shi_4E8B", "qing_60C5">>, <<"shi_4E8B", "qing_60C5">>>>,
      <<<<"wen_95EE", "ti_9898">>, <<"wen_95EE", "ti_9898">>>>,
      <<<<"ban_529E", "fa_6CD5">>, <<"ban_529E", "fa_6CD5">>>>
    >>


\* src/backend/dialect_tts/enhanced_ai_tts_system.py:50-105  _load_enhanced_vocabulary_map, 123 items in insertion order
vocabulary_map ==
    <<
      <<<<"ni_4F60", "hao_597D">>, <<"nong_4FAC", "hao_597D">>>>,  \* 你好: 侬好
      <<<<"nin_60A8", "hao_597D">>, <<"nong_4FAC", "hao_597D">>>>,  \* 您好: 侬好
      <<<<"zai_518D", "jian_89C1">>, <<"zai_518D", "hui_4F1A">>>>,  \* 再见: 再会
      <<<<"xie_8C22", "xie_8C22">>, <<"xie_8C22", "xie_8C22", "nong_4FAC">>>>,  \* 谢谢: 谢谢侬
      <<<<"dui_5BF9", "bu_4E0D", "qi_8D77">>, <<"dui_5BF9", "wu_52FF", "qi_8D77">>>>,  \* 对不起: 对勿起
      <<<<"mei_6CA1", "guan_5173", "xi_7CFB">>, <<"m_5452", "mei_6CA1", "guan_5173", "xi_7CFB">>>>,  \* 没关系: 呒没关系
      <<<<"bu_4E0D", "ke_5BA2", "qi_6C14">>, <<"wu_52FF", "yao_8981", "ke_5BA2", "qi_6C14">>>>,  \* 不客气: 勿要客气
      <<<<"jin_4ECA", "tian_5929">>, <<"jin_4ECA", "zhao_671D">>>>,  \* 今天: 今朝
      <<<<"ming_660E", "tian_5929">>, <<"ming_660E", "zhao_671D">>>>,  \* 明天: 明朝
      <<<<"zuo_6628", "tian_5929">>, <<"zuo_6628", "ri_65E5">>>>,  \* 昨天: 昨日
      <<<<"xian_73B0", "zai_5728">>, <<"xian_73B0", "zai_5728">>>>,  \* 现在: 现在
      <<<<"zao_65E9", "shang_4E0A">>, <<"zao_65E9", "lang_6D6A">>>>,  \* 早上: 早浪
      <<<<"wan_665A", "shang_4E0A">>, <<"ye_591C", "dao_5230">>>>,  \* 晚上: 夜到
      <<<<"zhong_4E2D", "wu_5348">>, <<"zhong_4E2D", "lang_6D6A">>>>,  \* 中午: 中浪
      <<<<"xia_4E0B", "wu_5348">>, <<"xia_4E0B", "ban_534A", "tian_5929">>>>,  \* 下午: 下半天
      <<<<"wo_6211", "men_4EEC">>, <<"a_963F", "la_62C9">>>>,  \* 我们: 阿拉
      <<<<"ni_4F60", "men_4EEC">>, <<"nong_4FAC", "la_62C9">>>>,  \* 你们: 侬拉
      <<<<"ta_4ED6", "men_4EEC">>, <<"yi_4F0A", "la_62C9">>>>,  \* 他们: 伊拉
      <<<<"wo_6211">>, <<"a_963F", "la_62C9">>>>,  \* 我: 阿拉
      <<<<"ni_4F60">>, <<"nong_4FAC">>>>,  \* 你: 侬
      <<<<"ta_4ED6">>, <<"yi_4F0A">>>>,  \* 他: 伊
      <<<<"ta_5979">>, <<"yi_4F0A">>>>,  \* 她: 伊
      <<<<"ba_7238", "ba_7238">>, <<"a_963F", "ba_7238">>>>,  \* 爸爸: 阿爸
      <<<<"ma_5988", "ma_5988">>, <<"mu_59C6", "ma_5988">>>>,  \* 妈妈: 姆妈
      <<<<"ye_7237", "ye_7237">>, <<"a_963F", "ye_7237">>>>,  \* 爷爷: 阿爷
      <<<<"nai_5976", "nai_5976">>, <<"a_963F", "nai_5976">>>>,  \* 奶奶: 阿奶
      <<<<"ge_54E5", "ge_54E5">>, <<"a_963F", "ge_54E5">>>>,  \* 哥哥: 阿哥
      <<<<"jie_59D0", "jie_59D0">>, <<"a_963F", "jie_59D0">>>>,  \* 姐姐: 阿姐
      <<<<"na_54EA", "li_91CC">>, <<"sha_5565", "di_5730", "fang_65B9">>>>,  \* 哪里: 啥地方
      <<<<"zhe_8FD9", "li_91CC">>, <<"ge_643F", "da_642D">>>>,  \* 这里: 搿搭
      <<<<"na_90A3", "li_91CC">>, <<"yi_4F0A", "da_642D">>>>,  \* 那里: 伊搭
      <<<<"jia_5BB6">>, <<"wu_5C4B", "li_91CC">>>>,  \* 家: 屋里
      <<<<"xue_5B66", "xiao_6821">>, <<"xue_5B66", "tang_5802">>>>,  \* 学校: 学堂
      <<<<"yi_533B", "yuan_9662">>, <<"yi_533B", "yuan_9662">>>>,  \* 医院: 医院
      <<<<"shang_5546", "dian_5E97">>, <<"shang_5546", "dian_5E97">>>>,  \* 商店: 商店
      <<<<"yin_94F6", "hang_884C">>, <<"yin_94F6", "hang_884C">>>>,  \* 银行: 银行
      <<<<"chi_5403">>, <<"chi_5403">>>>,  \* 吃: 吃
      <<<<"he_559D">>, <<"chi_5403">>>>,  \* 喝: 吃
      <<<<"zou_8D70">>, <<"pao_8DD1">>>>,  \* 走: 跑
      <<<<"pao_8DD1">>, <<"pao_8DD1">>>>,  \* 跑: 跑
      <<<<"zuo_5750">>, <<"zuo_5750">>>>,  \* 坐: 坐
      <<<<"zhan_7AD9">>, <<"li_7ACB">>>>,  \* 站: 立
      <<<<"shui_7761">>, <<"kun_56F0", "jiao_89C9">>>>,  \* 睡: 困觉
      <<<<"gong_5DE5", "zuo_4F5C">>, <<"zuo_505A", "sheng_751F", "huo_6D3B">>>>,  \* 工作: 做生活
      <<<<"xue_5B66", "xi_4E60">>, <<"du_8BFB", "shu_4E66">>>>,  \* 学习: 读书
      <<<<"kan_770B">>, <<"kan_770B">>>>,  \* 看: 看
      <<<<"ting_542C">>, <<"ting_542C">>>>,  \* 听: 听
      <<<<"shuo_8BF4">>, <<"jiang_8BB2">>>>,  \* 说: 讲
      <<<<"xiang_60F3">>, <<"xiang_60F3">>>>,  \* 想: 想
      <<<<"hao_597D">>, <<"hao_597D">>>>,  \* 好: 好
      <<<<"hen_5F88", "hao_597D">>, <<"man_86EE", "hao_597D">>>>,  \* 很好: 蛮好
      <<<<"bu_4E0D", "hao_597D">>, <<"wu_52FF", "hao_597D">>>>,  \* 不好: 勿好
      <<<<"da_5927">>, <<"da_5927">>>>,  \* 大: 大
      <<<<"xiao_5C0F">>, <<"xiao_5C0F">>>>,  \* 小: 小
      <<<<"duo_591A">>, <<"duo_591A">>>>,  \* 多: 多
      <<<<"shao_5C11">>, <<"shao_5C11">>>>,  \* 少: 少
      <<<<"kuai_5FEB">>, <<"kuai_5FEB">>>>,  \* 快: 快
      <<<<"man_6162">>, <<"man_6162">>>>,  \* 慢: 慢
      <<<<"re_70ED">>, <<"re_70ED">>>>,  \* 热: 热
      <<<<"leng_51B7">>, <<"leng_51B7">>>>,  \* 冷: 冷
      <<<<"shen_4EC0", "me_4E48">>, <<"sha_5565">>>>,  \* 什么: 啥
      <<<<"zen_600E", "me_4E48">>, <<"na_54EA", "neng_80FD">>>>,  \* 怎么: 哪能
      <<<<"wei_4E3A", "shen_4EC0", "me_4E48">>, <<"wei_4E3A", "sha_5565">>>>,  \* 为什么: 为啥
      <<<<"shen_4EC0", "me_4E48", "shi_65F6", "hou_5019">>, <<"sha_5565", "chen_8FB0", "guang_5149">>>>,  \* 什么时候: 啥辰光
      <<<<"duo_591A", "shao_5C11">>, <<"ji_51E0", "hua_5316">>>>,  \* 多少: 几化
      <<<<"ji_51E0", "ge_4E2A">>, <<"ji_51E0", "ge_4E2A">>>>,  \* 几个: 几个
      <<<<"na_54EA", "ge_4E2A">>, <<"na_54EA", "ge_4E2A">>>>,  \* 哪个: 哪个
      <<<<"shi_662F">>, <<"shi_662F">>>>,  \* 是: 是
      <<<<"bu_4E0D", "shi_662F">>, <<"wu_52FF", "shi_662F">>>>,  \* 不是: 勿是
      <<<<"you_6709">>, <<"you_6709">>>>,  \* 有: 有
      <<<<"mei_6CA1", "you_6709">>, <<"m_5452", "mei_6CA1">>>>,  \* 没有: 呒没
      <<<<"ke_53EF", "yi_4EE5">>, <<"ke_53EF", "yi_4EE5">>>>,  \* 可以: 可以
      <<<<"bu_4E0D", "ke_53EF", "yi_4EE5">>, <<"wu_52FF", "ke_53EF", "yi_4EE5">>>>,  \* 不可以: 勿可以
      <<<<"yao_8981">>, <<"yao_8981">>>>,  \* 要: 要
      <<<<"bu_4E0D", "yao_8981">>, <<"wu_52FF", "yao_8981">>>>,  \* 不要: 勿要
      <<<<"hui_4F1A">>, <<"hui_4F1A">>>>,  \* 会: 会
      <<<<"bu_4E0D", "hui_4F1A">>, <<"wu_52FF", "hui_4F1A">>>>,  \* 不会: 勿会
      <<<<"neng_80FD">>, <<"neng_80FD">>>>,  \* 能: 能
      <<<<"bu_4E0D", "neng_80FD">>, <<"wu_52FF", "neng_80FD">>>>,  \* 不能: 勿能
      <<<<"a_554A">>, <<"a_554A">>>>,  \* 啊: 啊
      <<<<"o_54E6">>, <<"o_54E6">>>>,  \* 哦: 哦
      <<<<"en_55EF">>, <<"en_55EF">>>>,  \* 嗯: 嗯
      <<<<"ai_54CE", "ya_5440">>, <<"ai_54CE", "ya_5440">>>>,  \* 哎呀: 哎呀
      <<<<"zhen_771F", "de_7684">>, <<"zhen_771F", "ge_4E2A">>>>,  \* 真的: 真个
      <<<<"jia_5047", "de_7684">>, <<"jia_5047", "ge_4E2A">>>>,  \* 假的: 假个
      <<<<"dang_5F53", "ran_7136">>, <<"dang_5F53", "ran_7136">>>>,  \* 当然: 当然
      <<<<"yi_4E00">>, <<"yi_4E00">>>>,  \* 一: 一
      <<<<"er_4E8C">>, <<"liang_4E24">>>>,  \* 二: 两
      <<<<"san_4E09">>, <<"san_4E09">>>>,  \* 三: 三
      <<<<"si_56DB">>, <<"si_56DB">>>>,  \* 四: 四
      <<<<"wu_4E94">>, <<"wu_4E94">>>>,  \* 五: 五
      <<<<"liu_516D">>, <<"liu_516D">>>>,  \* 六: 六
      <<<<"qi_4E03">>, <<"qi_4E03">>>>,  \* 七: 七
      <<<<"ba_516B">>, <<"ba_516B">>>>,  \* 八: 八
      <<<<"jiu_4E5D">>, <<"jiu_4E5D">>>>,  \* 九: 九
      <<<<"shi_5341">>, <<"shi_5341">>>>,  \* 十: 十
      <<<<"tian_5929", "qi_6C14">>, <<"tian_5929", "qi_6C14">>>>,  \* 天气: 天气
      <<<<"tai_592A", "yang_9633">>, <<"tai_592A", "yang_9633">>>>,  \* 太阳: 太阳
      <<<<"yue_6708", "liang_4EAE">>, <<"yue_6708", "liang_4EAE">>>>,  \* 月亮: 月亮
      <<<<"yu_96E8">>, <<"yu_96E8">>>>,  \* 雨: 雨
      <<<<"xue_96EA">>, <<"xue_96EA">>>>,  \* 雪: 雪
      <<<<"feng_98CE">>, <<"feng_98CE">>>>,  \* 风: 风
      <<<<"yun_4E91">>, <<"yun_4E91">>>>,  \* 云: 云
      <<<<"tian_5929", "kong_7A7A">>, <<"tian_5929", "kong_7A7A">>>>,  \* 天空: 天空
      <<<<"fan_996D">>, <<"fan_996D">>>>,  \* 饭: 饭
      <<<<"cai_83DC">>, <<"cai_83DC">>>>,  \* 菜: 菜
      <<<<"rou_8089">>, <<"rou_8089">>>>,  \* 肉: 肉
      <<<<"yu_9C7C">>, <<"yu_9C7C">>>>,  \* 鱼: 鱼
      <<<<"ji_9E21">>, <<"ji_9E21">>>>,  \* 鸡: 鸡
      <<<<"dan_86CB">>, <<"dan_86CB">>>>,  \* 蛋: 蛋
      <<<<"mian_9762">>, <<"mian_9762">>>>,  \* 面: 面
      <<<<"tang_6C64">>, <<"tang_6C64">>>>,  \* 汤: 汤
      <<<<"cha_8336">>, <<"cha_8336">>>>,  \* 茶: 茶
      <<<<"shui_6C34">>, <<"shui_6C34">>>>,  \* 水: 水
      <<<<"hong_7EA2">>, <<"hong_7EA2">>>>,  \* 红: 红
      <<<<"lan_84DD">>, <<"lan_84DD">>>>,  \* 蓝: 蓝
      <<<<"lv_7EFF">>, <<"lv_7EFF">>>>,  \* 绿: 绿
      <<<<"huang_9EC4">>, <<"huang_9EC4">>>>,  \* 黄: 黄
      <<<<"hei_9ED1">>, <<"hei_9ED1">>>>,  \* 黑: 黑
      <<<<"bai_767D">>, <<"bai_767D">>>>,  \* 白: 白
      <<<<"hui_7070">>, <<"hui_7070">>>>,  \* 灰: 灰
      <<<<"zi_7D2B">>, <<"zi_7D2B">>>>,  \* 紫: 紫
      <<<<"fen_7C89">>, <<"fen_7C89">>>>  \* 粉: 粉
    >>

\* src/backend/dialect_tts/enhanced_ai_tts_system.py:109-127  _load_phonetic_rules, 45 items in insertion order
phonetic_rules ==
    <<
      <<<<"z", "h">>, <<"z">>>>,  \* zh: z
      <<<<"c", "h">>, <<"c">>>>,  \* ch: c
      <<<<"s", "h">>, <<"s">>>>,  \* sh: s
      <<<<"r">>, <<"l">>>>,  \* r: l
      <<<<"j">>, <<"z">>>>,  \* j: z
      <<<<"q">>, <<"c">>>>,  \* q: c
      <<<<"x">>, <<"s">>>>,  \* x: s
      <<<<"n">>, <<"n">>>>,  \* n: n
      <<<<"l">>, <<"l">>>>,  \* l: l
      <<<<"h">>, <<"h">>>>,  \* h: h
      <<<<"f">>, <<"f">>>>,  \* f: f
      <<<<"a", "n">>, <<"a", "n", "g">>>>,  \* an: ang
      <<<<"e", "n">>, <<"e", "n", "g">>>>,  \* en: eng
      <<<<"i", "n">>, <<"i", "n", "g">>>>,  \* in: ing
      <<<<"u", "n">>, <<"u", "n", "g">>>>,  \* un: ung
      <<<<"i", "a", "n">>, <<"i", "a", "n", "g">>>>,  \* ian: iang
      <<<<"u", "a", "n">>, <<"u", "a", "n", "g">>>>,  \* uan: uang
      <<<<"v_00FC", "a", "n">>, <<"v_00FC", "a", "n", "g">>>>,  \* üan: üang
      <<<<"e", "i">>, <<"a", "i">>>>,  \* ei: ai
      <<<<"u", "i">>, <<"u", "e", "i">>>>,  \* ui: uei
      <<<<"o", "u">>, <<"o", "u">>>>,  \* ou: ou
      <<<<"a1_0101">>, <<"a">>>>,  \* ā: a
      <<<<"a2_00E1">>, <<"a">>>>,  \* á: a
      <<<<"a3_01CE">>, <<"a">>>>,  \* ǎ: a
      <<<<"a4_00E0">>, <<"a">>>>,  \* à: a
      <<<<"e1_0113">>, <<"e">>>>,  \* ē: e
      <<<<"e2_00E9">>, <<"e">>>>,  \* é: e
      <<<<"e3_011B">>, <<"e">>>>,  \* ě: e
      <<<<"e4_00E8">>, <<"e">>>>,  \* è: e
      <<<<"i1_012B">>, <<"i">>>>,  \* ī: i
      <<<<"i2_00ED">>, <<"i">>>>,  \* í: i
      <<<<"i3_01D0">>, <<"i">>>>,  \* ǐ: i
      <<<<"i4_00EC">>, <<"i">>>>,  \* ì: i
      <<<<"o1_014D">>, <<"o">>>>,  \* ō: o
      <<<<"o2_00F3">>, <<"o">>>>,  \* ó: o
      <<<<"o3_01D2">>, <<"o">>>>,  \* ǒ: o
      <<<<"o4_00F2">>, <<"o">>>>,  \* ò: o
      <<<<"u1_016B">>, <<"u">>>>,  \* ū: u
      <<<<"u2_00FA">>, <<"u">>>>,  \* ú: u
      <<<<"u3_01D4">>, <<"u">>>>,  \* ǔ: u
      <<<<"u4_00F9">>, <<"u">>>>,  \* ù: u
      <<<<"v1_01D6">>, <<"v_00FC">>>>,  \* ǖ: ü
      <<<<"v2_01D8">>, <<"v_00FC">>>>,  \* ǘ: ü
      <<<<"v3_01DA">>, <<"v_00FC">>>>,  \* ǚ: ü
      <<<<"v4_01DC">>, <<"v_00FC">>>>  \* ǜ: ü
    >>


(***************************************************************************)
(* Bounds of the inputs.                                                   *)
(***************************************************************************)
MaxLen == 3

\* Characters the texts given to detect_dialect are built from:
\*   space, 侬 好 个 能 (SHANGHAI), 巴 适 (SICHUAN)
DetectAlphabet ==
    {" ", "nong_4FAC", "hao_597D", "ge_4E2A", "neng_80FD", "ba_5DF4", "shi_9002"}

\* Characters the texts given to suggest_dialect_conversion are built from:
\*   很 好 怎 么 样 谢 家
ConvertAlphabet ==
    {"hen_5F88", "hao_597D", "zen_600E", "me_4E48", "yang_6837", "xie_8C22", "jia_5BB6"}

RECURSIVE StringsUpTo(_, _)
StringsUpTo(alphabet, n) ==
    IF n = 0 THEN {<<>>}
    ELSE LET shorter == StringsUpTo(alphabet, n - 1)
         IN  shorter \cup {Append(s, c) : s \in {t \in shorter : Len(t) = n - 1},
                                          c \in alphabet}

(***************************************************************************)
(* Python values passed as arguments.  Every value carries the same        *)
(* fields: its type, its characters or items, and its number.              *)
(***************************************************************************)
PyStr(s) == [type |-> "str", items |-> s, n |-> 0]
PyNone == [type |-> "NoneType", items |-> <<>>, n |-> 0]
PyInt(k) == [type |-> "int", items |-> <<>>, n |-> k]
PyList(xs) == [type |-> "list", items |-> xs, n |-> 0]
PyEnum(m) == [type |-> "DialectType", items |-> <<m>>, n |-> 0]

\* A longer text on which two profiles score the same: 오이소巴适得很
\* (SICHUAN and GYEONGSANG both score 17/105).
TieText ==
    <<"o_C624", "i_C774", "so_C18C", "ba_5DF4", "shi_9002", "de_5F97", "hen_5F88">>

\* A text on which the profile with more matched entries scores less:
\* 侬个伊啥巴适 (SHANGHAI matches 4 entries and scores 8/133, SICHUAN matches
\* 2 and scores 1/10).
CountText ==
    <<"nong_4FAC", "ge_4E2A", "yi_4F0A", "sha_5565", "ba_5DF4", "shi_9002">>

\* The demo sentences of run_dialect_tts.py:45-53 (test_dialect_detection)
\* and dialect_detector.py:281-287 (main).
\* 你好，今天天气很好
DemoStandard1 ==
    <<"ni_4F60", "hao_597D", "comma_FF0C", "jin_4ECA", "tian_5929", "tian_5929",
      "qi_6C14", "hen_5F88", "hao_597D">>

\* 侬好，今朝天气蛮好
DemoShanghai1 ==
    <<"nong_4FAC", "hao_597D", "comma_FF0C", "jin_4ECA", "zhao_671D", "tian_5929",
      "qi_6C14", "man_86EE", "hao_597D">>

\* 我们一起去吃饭吧
DemoStandard2 ==
    <<"wo_6211", "men_4EEC", "yi_4E00", "qi_8D77", "qu_53BB", "chi_5403", "fan_996D",
      "ba_5427">>

\* 阿拉一起去吃饭吧
DemoShanghai2 ==
    <<"a_963F", "la_62C9", "yi_4E00", "qi_8D77", "qu_53BB", "chi_5403", "fan_996D",
      "ba_5427">>

\* 巴适得很，要得不
DemoSichuan ==
    <<"ba_5DF4", "shi_9002", "de_5F97", "hen_5F88", "comma_FF0C", "yao_8981", "de_5F97",
      "bu_4E0D">>

\* 오이소, 모하노?
DemoGyeongsang ==
    <<"o_C624", "i_C774", "so_C18C", ",", " ", "mo_BAA8", "ha_D558", "no_B178", "?">>

\* 혼저 옵서예
DemoJeju ==
    <<"hon_D63C", "jeo_C800", " ", "op_C635", "seo_C11C", "ye_C608">>

DemoTexts ==
    {DemoStandard1, DemoShanghai1, DemoStandard2, DemoShanghai2, DemoSichuan,
     DemoGyeongsang, DemoJeju}

DetectTexts ==
    {PyStr(s) : s \in StringsUpTo(DetectAlphabet, MaxLen) \cup {TieText, CountText}
                        \cup DemoTexts}

\* run_dialect_tts.py:65-70 (test_text_conversion) rewrites the first two
\* standard sentences.
ConvertTexts ==
    {PyStr(s) : s \in StringsUpTo(ConvertAlphabet, MaxLen)
                        \cup {DemoStandard1, DemoStandard2}}

\* Arguments that are not a str: PyNone, 0, 5, [], ["x"].
NonTexts ==
    {PyNone, PyInt(0), PyInt(5), PyList(<<>>), PyList(<<"x">>)}

DetectArgs ==
    DetectTexts \cup NonTexts

ConvertArgs ==
    ConvertTexts \cup NonTexts

\* target_dialect arguments: the enum members, and two plain strings (each
\* written as a single token, their characters play no role).
TargetArgs ==
    {PyEnum(m) : m \in DialectType}
        \cup {PyStr(<<"nonexistent-dialect-id">>), PyStr(<<"shanghai">>)}

(***************************************************************************)
(* Exact rationals <<n, d>>, d > 0, in lowest terms.                       *)
(***************************************************************************)
RECURSIVE Gcd(_, _)
Gcd(a, b) ==
    IF b = 0 THEN a ELSE Gcd(b, a % b)

Abs(a) ==
    IF a < 0 THEN -a ELSE a

Frac(n, d) ==
    LET g == Gcd(Abs(n), d) IN <<n \div g, d \div g>>

FAdd(x, y) ==
    Frac(x[1] * y[2] + y[1] * x[2], x[2] * y[2])

FMul(x, y) ==
    Frac(x[1] * y[1], x[2] * y[2])

FDiv(x, y) ==
    Frac(x[1] * y[2], x[2] * y[1])

FLess(x, y) ==
    x[1] * y[2] < y[1] * x[2]

Zero ==
    <<0, 1>>

\* confidence_threshold arguments; 0.3 is the default of detect_dialect.
DefaultThreshold ==
    <<3, 10>>

Thresholds ==
    {Zero, <<1, 10>>, DefaultThreshold, <<1, 1>>}

(***************************************************************************)
(* The state: the fields of one DialectDetector, and the call in progress. *)
(***************************************************************************)
VARIABLES dialect_patterns, weights, pc, call, scores, ret, callers, frames, tts,
          manager, server, enhanced

vars ==
    <<dialect_patterns, weights, pc, call, scores, ret, callers, frames, tts, manager,
      server, enhanced>>

\* The TTSManager class, its instance and the last call on them.
managerVars ==
    <<manager>>

\* The mock server's request in progress.
serverVars ==
    <<server>>

\* The /convert-text request in progress.
enhancedVars ==
    <<enhanced>>

\* The UnifiedTTS object that owns the detector, and its synthesize call.
ttsVars ==
    <<tts>>

\* The call in progress when calls are made one after another.
callVars ==
    <<pc, call, scores, ret>>

\* The calls in progress, and their local variables, when several callers
\* call the detector at the same time.
callerVars ==
    <<callers, frames>>

DialectPattern(v, g, p, u) ==
    [vocabulary |-> v, grammar |-> g, pronunciation |-> p, unique_expressions |-> u]

\* self.dialect_patterns, a dict: its items in insertion order.
InitialDialectPatterns ==
    <<
      [dialect |-> SHANGHAI,
       pattern |-> DialectPattern(SHANGHAI_vocabulary, SHANGHAI_grammar,
                                  SHANGHAI_pronunciation, SHANGHAI_unique_expressions)],
      [dialect |-> SICHUAN,
       pattern |-> DialectPattern(SICHUAN_vocabulary, SICHUAN_grammar,
                                  SICHUAN_pronunciation, SICHUAN_unique_expressions)],
      [dialect |-> GYEONGSANG,
       pattern |-> DialectPattern(GYEONGSANG_vocabulary, GYEONGSANG_grammar,
                                  GYEONGSANG_pronunciation, GYEONGSANG_unique_expressions)],
      [dialect |-> JEJU,
       pattern |-> DialectPattern(JEJU_vocabulary, JEJU_grammar,
                                  JEJU_pronunciation, JEJU_unique_expressions)],
      [dialect |-> STANDARD,
       pattern |-> DialectPattern(STANDARD_vocabulary, STANDARD_grammar,
                                  STANDARD_pronunciation, STANDARD_unique_expressions)]
    >>

\* self.weights: 3.0, 2.0, 1.5, 4.0.
InitialWeights ==
    [vocabulary |-> <<3, 1>>, grammar |-> <<2, 1>>,
     pronunciation |-> <<3, 2>>, unique_expressions |-> <<4, 1>>]

(***************************************************************************)
(* Built-ins of Python the code relies on.                                 *)
(***************************************************************************)
\* bool(x): PyNone, 0, "" and [] are false.
Truthy(x) ==
    CASE x.type = "NoneType" -> FALSE
      [] x.type = "int" -> x.n # 0
      [] OTHER -> Len(x.items) > 0

Whitespace ==
    {" ", "\t", "\n", "\r", "\f"}

\* Variant of Strip: nothing is removed (the test `not text` alone).
StripNothing(s) ==
    s

\* str.strip(): leading and trailing whitespace removed.
RECURSIVE Strip(_)
Strip(s) ==
    IF s = <<>> THEN s
    ELSE IF Head(s) \in Whitespace THEN Strip(Tail(s))
    ELSE IF s[Len(s)] \in Whitespace THEN Strip(SubSeq(s, 1, Len(s) - 1))
    ELSE s

\* startswith at position i (1-based): s[i .. i+len(p)-1] = p.
MatchAt(s, p, i) ==
    /\ i + Len(p) - 1 <= Len(s)
    /\ SubSeq(s, i, i + Len(p) - 1) = p

\* Variant of Contains with the operands exchanged: `s in p`.
ContainedIn(s, p) ==
    \E i \in 1..(Len(p) + 1) : MatchAt(p, s, i)

\* `p in s` for two strings.
Contains(s, p) ==
    \E i \in 1..(Len(s) + 1) : MatchAt(s, p, i)

(***************************************************************************)
(* DialectDetector._calculate_pattern_score                                *)
(***************************************************************************)
_calculate_pattern_score(text, patterns) ==
    IF patterns = <<>> THEN Zero
    ELSE LET matches == Cardinality({i \in 1..Len(patterns) : Contains(text, patterns[i])})
         IN  Frac(matches, Len(patterns))

(***************************************************************************)
(* Variant of _calculate_dialect_score: the weighted sum is returned       *)
(* without the division by total_weight.                                   *)
(***************************************************************************)
_calculate_dialect_score_unnormalised(text, pattern) ==
    LET vocab_score == _calculate_pattern_score(text, pattern.vocabulary)
        grammar_score == _calculate_pattern_score(text, pattern.grammar)
        unique_score == _calculate_pattern_score(text, pattern.unique_expressions)
    IN  FAdd(FAdd(FMul(vocab_score, weights.vocabulary),
                  FMul(grammar_score, weights.grammar)),
             FMul(unique_score, weights.unique_expressions))

(***************************************************************************)
(* Variant of _calculate_dialect_score: the matched entries of the three   *)
(* lists are pooled and divided by the pooled number of entries, without   *)
(* weights.                                                                *)
(***************************************************************************)
_calculate_dialect_score_pooled_counts(text, pattern) ==
    LET all == pattern.vocabulary \o pattern.grammar \o pattern.unique_expressions
    IN  _calculate_pattern_score(text, all)

(***************************************************************************)
(* Variant of _calculate_dialect_score: a term whose score is 0 adds no    *)
(* weight, so the pronunciation weight is missing from the divisor.        *)
(***************************************************************************)
_calculate_dialect_score_nonzero_weights(text, pattern) ==
    LET vocab_score == _calculate_pattern_score(text, pattern.vocabulary)
        grammar_score == _calculate_pattern_score(text, pattern.grammar)
        unique_score == _calculate_pattern_score(text, pattern.unique_expressions)
        total_score ==
            FAdd(FAdd(FMul(vocab_score, weights.vocabulary),
                      FMul(grammar_score, weights.grammar)),
                 FMul(unique_score, weights.unique_expressions))
        total_weight ==
            FAdd(FAdd(weights.vocabulary, weights.grammar), weights.unique_expressions)
    IN  IF FLess(Zero, total_weight) THEN FDiv(total_score, total_weight) ELSE Zero

(***************************************************************************)
(* DialectDetector._calculate_dialect_score: the four terms are added to   *)
(* total_score and total_weight in the order of the source.                *)
(***************************************************************************)
_calculate_dialect_score(text, pattern) ==
    LET vocab_score == _calculate_pattern_score(text, pattern.vocabulary)
        score1 == FAdd(Zero, FMul(vocab_score, weights.vocabulary))
        weight1 == FAdd(Zero, weights.vocabulary)
        grammar_score == _calculate_pattern_score(text, pattern.grammar)
        score2 == FAdd(score1, FMul(grammar_score, weights.grammar))
        weight2 == FAdd(weight1, weights.grammar)
        pronunciation_score == Zero
        score3 == FAdd(score2, FMul(pronunciation_score, weights.pronunciation))
        weight3 == FAdd(weight2, weights.pronunciation)
        unique_score == _calculate_pattern_score(text, pattern.unique_expressions)
        total_score == FAdd(score3, FMul(unique_score, weights.unique_expressions))
        total_weight == FAdd(weight3, weights.unique_expressions)
    IN  IF FLess(Zero, total_weight) THEN FDiv(total_score, total_weight) ELSE Zero

(***************************************************************************)
(* The scoring loop of detect_dialect (lines 142-148): one entry per       *)
(* profile other than STANDARD, in the order of dialect_patterns.          *)
(***************************************************************************)
RECURSIVE ScoreProfiles(_, _)
ScoreProfiles(text, items) ==
    IF items = <<>> THEN <<>>
    ELSE IF Head(items).dialect = STANDARD THEN ScoreProfiles(text, Tail(items))
    ELSE <<[dialect |-> Head(items).dialect,
            score |-> _calculate_dialect_score(text, Head(items).pattern)]>>
             \o ScoreProfiles(text, Tail(items))

\* max(scores, key=scores.get): the first key, in insertion order, whose
\* value no other value exceeds (a later key replaces the running maximum
\* only when strictly greater).
\* Variant of BelowThreshold: `best_score <= confidence_threshold`.
BelowOrAtThreshold(best_score, confidence_threshold) ==
    ~FLess(confidence_threshold, best_score)

\* `best_score < confidence_threshold` (line 158).
BelowThreshold(best_score, confidence_threshold) ==
    FLess(best_score, confidence_threshold)

RECURSIVE MaxFrom(_, _, _)
MaxFrom(sc, best, i) ==
    IF i > Len(sc) THEN best
    ELSE IF FLess(sc[best].score, sc[i].score) THEN MaxFrom(sc, i, i + 1)
    ELSE MaxFrom(sc, best, i + 1)

\* Variant of MaxKey: among equal maxima the last key wins.
RECURSIVE MaxFromLast(_, _, _)
MaxFromLast(sc, best, i) ==
    IF i > Len(sc) THEN best
    ELSE IF ~FLess(sc[i].score, sc[best].score) THEN MaxFromLast(sc, i, i + 1)
    ELSE MaxFromLast(sc, best, i + 1)

MaxKeyLast(sc) ==
    MaxFromLast(sc, 1, 2)

MaxKey(sc) ==
    MaxFrom(sc, 1, 2)

(***************************************************************************)
(* Results of a call: a returned value or a raised exception.              *)
(***************************************************************************)
NoText == PyNone

\* The empty dict {} of get_dialect_info; also the info of the other results.
NoInfo ==
    [empty |-> TRUE, name |-> "", vocabulary_count |-> 0, grammar_count |-> 0,
     pronunciation_features |-> <<>>, unique_expressions |-> <<>>]

Returned(dialect, confidence, text) ==
    [kind |-> "return", dialect |-> dialect, confidence |-> confidence,
     text |-> text, exc |-> "", info |-> NoInfo]

\* The value returned by get_dialect_info.
ReturnedInfo(info) ==
    [kind |-> "return", dialect |-> "", confidence |-> Zero,
     text |-> NoText, exc |-> "", info |-> info]

Raised(exc) ==
    [kind |-> "raise", dialect |-> "", confidence |-> Zero, text |-> NoText, exc |-> exc,
     info |-> NoInfo]

NoResult ==
    [kind |-> "none", dialect |-> "", confidence |-> Zero, text |-> NoText, exc |-> "",
     info |-> NoInfo]

(***************************************************************************)
(* DialectDetector.detect_dialect: the scores dict it builds and its       *)
(* result.                                                                 *)
(***************************************************************************)
detect_dialect(text, confidence_threshold) ==
    IF ~Truthy(text)
    THEN [scores |-> <<>>, ret |-> Returned(STANDARD, Zero, NoText)]
    ELSE IF text.type # "str"
    THEN [scores |-> <<>>, ret |-> Raised("AttributeError")]
    ELSE IF Strip(text.items) = <<>>
    THEN [scores |-> <<>>, ret |-> Returned(STANDARD, Zero, NoText)]
    ELSE LET sc == ScoreProfiles(text.items, dialect_patterns)
         IN  IF sc = <<>>
             THEN [scores |-> sc, ret |-> Returned(STANDARD, Zero, NoText)]
             ELSE LET best == MaxKey(sc)
                      best_dialect == sc[best].dialect
                      best_score == sc[best].score
                  IN  IF BelowThreshold(best_score, confidence_threshold)
                      THEN [scores |-> sc, ret |-> Returned(STANDARD, best_score, NoText)]
                      ELSE [scores |-> sc, ret |-> Returned(best_dialect, best_score, NoText)]

(***************************************************************************)
(* str.replace(old, new): every non-overlapping occurrence of old, found   *)
(* scanning from the left, is replaced; an empty old matches before every  *)
(* character and at the end.                                               *)
(***************************************************************************)
RECURSIVE ReplaceScan(_, _, _)
ReplaceScan(s, old, new) ==
    IF s = <<>> THEN <<>>
    ELSE IF MatchAt(s, old, 1)
    THEN new \o ReplaceScan(SubSeq(s, Len(old) + 1, Len(s)), old, new)
    ELSE <<Head(s)>> \o ReplaceScan(Tail(s), old, new)

RECURSIVE Interleave(_, _)
Interleave(s, new) ==
    IF s = <<>> THEN new ELSE new \o <<Head(s)>> \o Interleave(Tail(s), new)

Replace(s, old, new) ==
    IF old = <<>> THEN Interleave(s, new) ELSE ReplaceScan(s, old, new)

(***************************************************************************)
(* suggest_dialect_conversion, lines 223-263: the local dict               *)
(* conversion_rules, its items in insertion order; each rule is            *)
(* <<standard, dialect>>.                                                  *)
(***************************************************************************)
conversion_rules ==
    <<
      [dialect |-> SHANGHAI, rules |-> SHANGHAI_rules],
      [dialect |-> SICHUAN, rules |-> SICHUAN_rules]
    >>

\* `target_dialect in conversion_rules`: the keys are DialectType members.
InConversionRules(target_dialect) ==
    \E i \in 1..Len(conversion_rules) : target_dialect = PyEnum(conversion_rules[i].dialect)

RulesOf(target_dialect) ==
    LET i == CHOOSE j \in 1..Len(conversion_rules) :
                 target_dialect = PyEnum(conversion_rules[j].dialect)
    IN  conversion_rules[i].rules

\* Variant of ApplyRules: the rules are applied from the last one back to
\* rule i.
RECURSIVE ApplyRulesBackwards(_, _, _)
ApplyRulesBackwards(converted_text, rules, i) ==
    IF i > Len(rules) THEN converted_text
    ELSE LET rest == ApplyRulesBackwards(converted_text, rules, i + 1)
         IN  Replace(rest, rules[i][1], rules[i][2])

\* Variant of ApplyRules: every rule is applied twice in a row, so a rule
\* sees the text it has produced.
RECURSIVE ApplyRulesEachTwice(_, _, _)
ApplyRulesEachTwice(converted_text, rules, i) ==
    IF i > Len(rules) THEN converted_text
    ELSE LET once == Replace(converted_text, rules[i][1], rules[i][2])
         IN  ApplyRulesEachTwice(Replace(once, rules[i][1], rules[i][2]), rules, i + 1)

\* Variant of ApplyRules: the loop returns after its first iteration.
ApplyRulesFirstOnly(converted_text, rules, i) ==
    IF i > Len(rules) THEN converted_text
    ELSE Replace(converted_text, rules[i][1], rules[i][2])

\* The loop of lines 271-272 from rule i on: converted_text after the rest
\* of the rules have been applied one after another.
RECURSIVE ApplyRules(_, _, _)
ApplyRules(converted_text, rules, i) ==
    IF i > Len(rules) THEN converted_text
    ELSE ApplyRules(Replace(converted_text, rules[i][1], rules[i][2]), rules, i + 1)

(***************************************************************************)
(* Variant of suggest_dialect_conversion: a target without a conversion    *)
(* map is rewritten with the first map, as conversion_rules.get(target,    *)
(* first map) would.                                                       *)
(***************************************************************************)
suggest_dialect_conversion_default_rules(text, target_dialect) ==
    IF target_dialect = PyEnum(STANDARD)
    THEN Returned("", Zero, text)
    ELSE LET rules == IF InConversionRules(target_dialect)
                      THEN RulesOf(target_dialect)
                      ELSE conversion_rules[1].rules
         IN  IF text.type # "str" THEN Raised("AttributeError")
             ELSE Returned("", Zero, PyStr(ApplyRules(text.items, rules, 1)))

(***************************************************************************)
(* Variant of suggest_dialect_conversion: no early return for STANDARD,    *)
(* and a target without a conversion map is rewritten with the first map.  *)
(***************************************************************************)
suggest_dialect_conversion_always_rewrites(text, target_dialect) ==
    LET rules == IF InConversionRules(target_dialect)
                 THEN RulesOf(target_dialect)
                 ELSE conversion_rules[1].rules
    IN  IF text.type # "str" THEN Raised("AttributeError")
        ELSE Returned("", Zero, PyStr(ApplyRules(text.items, rules, 1)))

(***************************************************************************)
(* DialectDetector.suggest_dialect_conversion                              *)
(***************************************************************************)
suggest_dialect_conversion(text, target_dialect) ==
    IF target_dialect = PyEnum(STANDARD)
    THEN Returned("", Zero, text)
    ELSE IF ~InConversionRules(target_dialect)
    THEN Returned("", Zero, text)
    ELSE LET rules == RulesOf(target_dialect)
         IN  IF rules = <<>> THEN Returned("", Zero, text)
             ELSE IF text.type # "str" THEN Raised("AttributeError")
             ELSE Returned("", Zero, PyStr(ApplyRules(text.items, rules, 1)))

(***************************************************************************)
(* DialectDetector.get_dialect_info: the dict it returns, and              *)
(* self.dialect_patterns as the method leaves it (the method only reads    *)
(* it).  A key that is not a DialectType member equals no key of the dict. *)
(***************************************************************************)
InDialectPatterns(dialect) ==
    /\ dialect.type = "DialectType"
    /\ \E j \in 1..Len(dialect_patterns) : dialect_patterns[j].dialect = dialect.items[1]

\* Variant of get_dialect_info: the profile is taken out of the dict
\* (dict.pop) instead of being read.
get_dialect_info_pop(dialect) ==
    IF ~InDialectPatterns(dialect)
    THEN [ret |-> ReturnedInfo(NoInfo), dialect_patterns |-> dialect_patterns]
    ELSE LET Keep(e) == e.dialect # dialect.items[1]
         IN  [ret |-> ReturnedInfo([NoInfo EXCEPT !.empty = FALSE, !.name = dialect.items[1]]),
              dialect_patterns |-> SelectSeq(dialect_patterns, Keep)]

\* Variant of get_dialect_info: the unique_expressions list handed out is
\* emptied in the profile (list.clear after the dict is built).
get_dialect_info_clear(dialect) ==
    IF ~InDialectPatterns(dialect)
    THEN [ret |-> ReturnedInfo(NoInfo), dialect_patterns |-> dialect_patterns]
    ELSE LET k == CHOOSE j \in 1..Len(dialect_patterns) :
                      dialect_patterns[j].dialect = dialect.items[1]
             pattern == dialect_patterns[k].pattern
         IN  [ret |-> ReturnedInfo(
                        [empty |-> FALSE,
                         name |-> dialect.items[1],
                         vocabulary_count |-> Len(pattern.vocabulary),
                         grammar_count |-> Len(pattern.grammar),
                         pronunciation_features |-> pattern.pronunciation,
                         unique_expressions |-> pattern.unique_expressions]),
              dialect_patterns |->
                  [dialect_patterns EXCEPT ![k].pattern.unique_expressions = <<>>]]

get_dialect_info(dialect) ==
    IF ~InDialectPatterns(dialect)
    THEN [ret |-> ReturnedInfo(NoInfo), dialect_patterns |-> dialect_patterns]
    ELSE LET k == CHOOSE j \in 1..Len(dialect_patterns) :
                      dialect_patterns[j].dialect = dialect.items[1]
             pattern == dialect_patterns[k].pattern
         IN  [ret |-> ReturnedInfo(
                        [empty |-> FALSE,
                         name |-> dialect.items[1],
                         vocabulary_count |-> Len(pattern.vocabulary),
                         grammar_count |-> Len(pattern.grammar),
                         pronunciation_features |-> pattern.pronunciation,
                         unique_expressions |-> pattern.unique_expressions]),
              dialect_patterns |-> dialect_patterns]

(***************************************************************************)
(* unified_tts.py: UnifiedTTS.synthesize and the two paths it routes to.   *)
(* The Google Cloud TTS service is outside the program: a call to it       *)
(* returns audio ("ok") or raises ("raise").  convert_audio catches every  *)
(* Exception itself (voice_converter.py lines 184-213) and returns the     *)
(* converted audio ("converted") or, after an error, the audio it was      *)
(* given ("standard").  The call of line 163 is on whatever object         *)
(* self.shanghai_converter holds; what the handler of lines 171-173 is     *)
(* there for, an exception that comes out of the call, is "raise".         *)
(***************************************************************************)
TTSConfig(voice_conversion_enabled, auto_dialect_detection, confidence_threshold) ==
    [voice_conversion_enabled |-> voice_conversion_enabled,
     auto_dialect_detection |-> auto_dialect_detection,
     confidence_threshold |-> confidence_threshold]

\* A result dict of synthesize; "absent" stands for a key the dict does not
\* have.
Result(success, dialect, provider, audio_data, converted, error) ==
    [success |-> success, dialect |-> dialect, provider |-> provider,
     audio_data |-> audio_data, converted |-> converted, error |-> error]

NoSynthesis ==
    Result(FALSE, "", "absent", "absent", "absent", "absent")

\* _should_convert_to_dialect (lines 189-193).
shanghai_indicators ==
    <<
      <<"nong_4FAC">>,                          \* 侬
      <<"a_963F", "la_62C9">>,                  \* 阿拉
      <<"jin_4ECA", "zhao_671D">>,              \* 今朝
      <<"man_86EE", "hao_597D">>,               \* 蛮好
      <<"sha_5565">>,                           \* 啥
      <<"na_54EA", "neng_80FD">>,               \* 哪能
      <<"sha_5565", "di_5730", "fang_65B9">>,   \* 啥地方
      <<"xie_8C22", "xie_8C22", "nong_4FAC">>   \* 谢谢侬
    >>

\* `indicator in text` raises TypeError when text is None or an int; a
\* list holds no str of the indicators here.
_should_convert_to_dialect(text) ==
    CASE text.type = "str" ->
             [raised |-> FALSE,
              value |-> \E k \in 1..Len(shanghai_indicators) :
                           Contains(text.items, shanghai_indicators[k])]
      [] text.type = "list" -> [raised |-> FALSE, value |-> FALSE]
      [] OTHER -> [raised |-> TRUE, value |-> FALSE]

\* _synthesize_standard (lines 111-141): the result and the calls made.
_synthesize_standard(text, google) ==
    [trace |-> <<"_synthesize_standard", "google_tts">>,
     ret |-> IF google = "ok"
             THEN Result(TRUE, "standard", "google_cloud_tts", "standard", "absent", "absent")
             ELSE Result(FALSE, "standard", "absent", "absent", "absent", "Exception")]

\* Variant of _convert: an exception of the converter makes the whole
\* synthesis fail.
_convert_or_fail(standard_result, convert) ==
    IF convert = "raise"
    THEN Result(FALSE, "shanghai", "absent", "absent", "absent", "Exception")
    ELSE Result(TRUE, "shanghai", "google_cloud_tts + voice_conversion",
                convert, "True", "absent")

\* The inner try of _synthesize_shanghai (lines 155-173): the dict built
\* from the converter's audio, or standard_result when the call raised.
_convert(standard_result, convert) ==
    IF convert = "raise"
    THEN standard_result
    ELSE Result(TRUE, "shanghai", "google_cloud_tts + voice_conversion",
                convert, "True", "absent")

\* _synthesize_shanghai (lines 143-187).
_synthesize_shanghai(config, text, force_dialect, google, convert) ==
    LET standard_result == _synthesize_standard(text, google)
        tr == <<"_synthesize_shanghai">> \o standard_result.trace
    IN  IF ~standard_result.ret.success
        THEN [trace |-> tr, ret |-> standard_result.ret]
        ELSE IF ~config.voice_conversion_enabled
        THEN [trace |-> tr,
              ret |-> [standard_result.ret EXCEPT !.dialect = "shanghai", !.converted = "False"]]
        ELSE IF force_dialect
        THEN [trace |-> Append(tr, "convert_audio"),
              ret |-> _convert(standard_result.ret, convert)]
        ELSE LET should == _should_convert_to_dialect(text)
                 tr2 == Append(tr, "_should_convert_to_dialect")
             IN  IF should.raised
                 THEN [trace |-> tr2,
                       ret |-> Result(FALSE, "shanghai", "absent", "absent", "absent",
                                      "TypeError")]
                 ELSE IF should.value
                 THEN [trace |-> Append(tr2, "convert_audio"),
                       ret |-> _convert(standard_result.ret, convert)]
                 ELSE [trace |-> tr2,
                       ret |-> [standard_result.ret EXCEPT !.dialect = "shanghai",
                                                           !.converted = "False"]]

\* Variant of TakesShanghaiPath: every dialect other than STANDARD takes
\* the dialect path.
TakesDialectPath(dialect) ==
    dialect # PyEnum(STANDARD)

\* `dialect == DialectType.SHANGHAI` (line 98).
TakesShanghaiPath(dialect) ==
    dialect = PyEnum(SHANGHAI)

\* synthesize (lines 73-109): the result, the calls made, and the value of
\* its variable dialect at the end.  detect_dialect is called with its
\* default confidence_threshold (line 91).
synthesize(config, text, dialect, force_dialect, google, convert) ==
    LET detecting == dialect = PyNone /\ config.auto_dialect_detection
        detected == detect_dialect(text, DefaultThreshold).ret
        tr == IF detecting THEN <<"detect_dialect">> ELSE <<>>
    IN  IF detecting /\ detected.kind = "raise"
        THEN [trace |-> tr, dialect |-> dialect,
              ret |-> Result(FALSE, "unknown", "absent", "absent", "absent", detected.exc)]
        ELSE LET d == IF detecting THEN PyEnum(detected.dialect)
                      ELSE IF dialect = PyNone THEN PyEnum(STANDARD)
                      ELSE dialect
                 r == IF TakesShanghaiPath(d)
                      THEN _synthesize_shanghai(config, text, force_dialect, google, convert)
                      ELSE _synthesize_standard(text, google)
             IN  [trace |-> tr \o r.trace, dialect |-> d, ret |-> r.ret]

\* No UnifiedTTS has been constructed.
NoTTS ==
    [pc |-> "unconstructed",
     config |-> TTSConfig(FALSE, FALSE, Zero),
     call |-> [text |-> PyNone, dialect |-> PyNone, force_dialect |-> FALSE,
               google |-> "ok", convert |-> "converted"],
     trace |-> <<>>, dialect |-> PyNone, ret |-> NoSynthesis]

(***************************************************************************)
(* unified_tts.py: TTSManager (lines 217-242) and the module-level         *)
(* tts_manager, get_tts and initialize_tts (lines 244-254).  None is 0 and *)
(* the one TTSManager object is 1; a UnifiedTTS object is its serial       *)
(* number and its config.  `unset` is an attribute the instance does not   *)
(* have, so that a read finds the class attribute.                         *)
(***************************************************************************)
NoObject ==
    [id |-> 0, config |-> TTSConfig(FALSE, FALSE, Zero)]

NoManager ==
    [_instance |-> 0,                  \* TTSManager._instance
     cls_initialized |-> FALSE,        \* TTSManager._initialized
     self_initialized |-> "unset",     \* self._initialized
     _tts |-> NoObject,                \* self._tts
     made |-> 0,                       \* UnifiedTTS objects constructed so far
     latest |-> NoObject,              \* the object of the latest initialize that returned
     op |-> "none", ret |-> NoObject, exc |-> ""]

\* Variant of TTSManager__init__: the attributes are set on every call.
TTSManager__init__always(m) ==
    [m EXCEPT !._tts = NoObject, !.self_initialized = "True"]

\* __init__ (lines 227-230): `self._initialized` is the attribute of the
\* instance when it has one, else the class attribute.
TTSManager__init__(m) ==
    LET _initialized == IF m.self_initialized = "unset" THEN m.cls_initialized ELSE TRUE
    IN  IF ~_initialized
        THEN [m EXCEPT !._tts = NoObject, !.self_initialized = "True"]
        ELSE m

\* __new__ (lines 222-225).
TTSManager__new__(m) ==
    IF m._instance = 0 THEN [m EXCEPT !._instance = 1] ELSE m

(***************************************************************************)
(* mock_server.py: the Flask application that answers POST /voice/convert  *)
(* and the chain of TTS providers behind it.                               *)
(***************************************************************************)
\* AVAILABLE_DIALECTS (lines 26-30).
AVAILABLE_DIALECTS ==
    <<"standard", "tokyo", "osaka", "kyoto", "hiroshima", "fukuoka", "sendai",
      "nagoya", "sapporo", "okinawa", "kagoshima", "kansai", "hakata", "tsugaru">>

\* `x in AVAILABLE_DIALECTS`.
InAvailableDialects(x) ==
    \E k \in 1..Len(AVAILABLE_DIALECTS) : AVAILABLE_DIALECTS[k] = x

\* required_fields (line 429), in the order the loop visits them.
required_fields ==
    <<"text", "source_language", "target_dialect">>

\* The limit of `if len(text) > 500` (line 451).
MaxTextLength == 500

\* request.get_json(): None, or an object with the keys `has` and their
\* values (a key that is not in `has` has no value; the model keeps None
\* and "" in its place).
JsonObject(has, text, source_language, target_dialect) ==
    [type |-> "dict", has |-> has, text |-> text, source_language |-> source_language,
     target_dialect |-> target_dialect]

JsonNull ==
    [type |-> "NoneType", has |-> {}, text |-> PyNone, source_language |-> "",
     target_dialect |-> ""]

\* jsonify(...), status: the response of the handler.  `about` is what
\* its error message names, `dialect` and `text` are the keys of the
\* same names in a successful response.
Response(status, success, error, about, dialect, text, audio) ==
    [status |-> status, success |-> success, error |-> error, about |-> about,
     dialect |-> dialect, text |-> text, audio |-> audio]

\* A bytes object, named by the function that produced its content.
Bytes(produced_by) ==
    [type |-> "bytes", produced_by |-> produced_by]

NoBytes ==
    [type |-> "none", produced_by |-> "none"]

\* A response with 'success': False and 'error': ...
ErrorResponse(status, error, about) ==
    Response(status, FALSE, error, about, "", PyNone, NoBytes)

NoResponse ==
    Response(0, FALSE, "", "", "", PyNone, NoBytes)

\* The first field of required_fields that `field not in data` finds
\* missing (lines 430-435), "" when the loop ends without returning.
RECURSIVE FirstMissing(_, _)
FirstMissing(data, k) ==
    IF k > Len(required_fields) THEN ""
    ELSE IF required_fields[k] \notin data.has THEN required_fields[k]
    ELSE FirstMissing(data, k + 1)

\* convert_voice up to the call of generate_real_tts_audio (lines 425-455):
\* the response the handler returns before any provider is called, or
\* NoResponse when the request passes every check.  `field not in data`
\* raises TypeError on None and len(text) raises TypeError on a value that
\* has no length; the handler's except clause (lines 483-487) answers both
\* with status 500.
Validate(data) ==
    IF data.type = "NoneType"
    THEN ErrorResponse(500, "Internal server error", "TypeError")
    ELSE IF FirstMissing(data, 1) # ""
    THEN ErrorResponse(400, "Missing required field", FirstMissing(data, 1))
    ELSE IF ~InAvailableDialects(data.target_dialect)
    THEN ErrorResponse(400, "Unsupported dialect", data.target_dialect)
    ELSE IF data.text.type \notin {"str", "list"}
    THEN ErrorResponse(500, "Internal server error", "TypeError")
    ELSE IF Len(data.text.items) > MaxTextLength
    THEN ErrorResponse(400, "Text too long", "")
    ELSE NoResponse

\* Variant of except_fallback: pyttsx3 is skipped after Edge TTS fails.
except_fallback_skipping(provider) ==
    CASE provider = "generate_edge_tts_audio" -> "generate_gtts_audio"
      [] provider = "generate_pyttsx3_audio" -> "generate_gtts_audio"
      [] provider = "generate_gtts_audio" -> "generate_simple_audio"

\* The function each provider's except clause returns the result of
\* (lines 236-239, 299-302, 326-329); the except clause of
\* generate_real_tts_audio (lines 166-169) names the same function as
\* the one of generate_edge_tts_audio.
except_fallback(provider) ==
    CASE provider = "generate_edge_tts_audio" -> "generate_pyttsx3_audio"
      [] provider = "generate_pyttsx3_audio" -> "generate_gtts_audio"
      [] provider = "generate_gtts_audio" -> "generate_simple_audio"

\* convert_mp3_to_wav (lines 331-358): the bytes it was given, or the
\* tone of generate_standard_wav when a temporary file fails.
convert_mp3_to_wav(mp3_data, outcome) ==
    IF outcome = "ok" THEN mp3_data ELSE Bytes("generate_standard_wav")

\* convert_to_browser_compatible_wav (lines 107-135): the same audio
\* rewritten, or the tone of generate_standard_wav when it cannot be read.
convert_to_browser_compatible_wav(audio_data, outcome) ==
    IF outcome = "ok" THEN audio_data ELSE Bytes("generate_standard_wav")

\* The server before a request, and while it handles one.
NoServer ==
    [pc |-> "idle", data |-> JsonNull, called |-> <<>>, failed |-> {},
     audio |-> NoBytes, response |-> NoResponse]

(***************************************************************************)
(* enhanced_ai_tts_system.py: EnhancedAITTSystem.convert_text_to_shanghai, *)
(* lines 139-151.  The vocabulary rules, then the phonetic rules, are      *)
(* applied one after another with str.replace.                             *)
(***************************************************************************)
\* The loop `for standard, shanghai in items: converted_text =
\* converted_text.replace(standard, shanghai)` over the items lo..hi, in
\* order: the first half of the items, then the second half on its result
\* (the test on Len(half) makes the first half be computed first).
RECURSIVE ReplaceItems(_, _, _, _)
ReplaceItems(converted_text, items, lo, hi) ==
    IF lo > hi THEN converted_text
    ELSE IF lo = hi THEN Replace(converted_text, items[lo][1], items[lo][2])
    ELSE LET mid == (lo + hi) \div 2
             half == ReplaceItems(converted_text, items, lo, mid)
         IN  IF Len(half) >= 0 THEN ReplaceItems(half, items, mid + 1, hi) ELSE half

convert_text_to_shanghai(text) ==
    LET converted_text == ReplaceItems(text, vocabulary_map, 1, Len(vocabulary_map))
    IN  ReplaceItems(converted_text, phonetic_rules, 1, Len(phonetic_rules))

\* The response of POST /convert-text (ai_tts_server.py).
ConvertTextResponse(status, success, original, shanghai, changed) ==
    [status |-> status, success |-> success, original |-> original,
     shanghai |-> shanghai, changed |-> changed]

\* jsonify({'error': ...}), status
ConvertTextError(status) ==
    ConvertTextResponse(status, FALSE, PyNone, PyNone, FALSE)

\* ai_tts_server.convert_text, lines 118-140.  `text` is
\* data.get('text', ''); a text that is not a str has no replace method,
\* and the except clause answers with status 500.
convert_text(text) ==
    IF ~Truthy(text) THEN ConvertTextError(400)
    ELSE IF text.type # "str" THEN ConvertTextError(500)
    ELSE LET shanghai_text == PyStr(convert_text_to_shanghai(text.items))
         IN  ConvertTextResponse(200, TRUE, text, shanghai_text, text # shanghai_text)

\* The /convert-text endpoint before a request.
NoEnhanced ==
    [pc |-> "idle", text |-> PyNone, response |-> ConvertTextError(0)]

(***************************************************************************)
(* The state machine: a detector is constructed, then callers call its     *)
(* methods one after another.                                              *)
(***************************************************************************)
NoCall ==
    [op |-> "none", text |-> PyNone, confidence_threshold |-> Zero, target_dialect |-> PyNone]

\* The number of callers that call the detector at the same time.
NumCallers == 2

Callers ==
    1..NumCallers

\* The local variables of a call: scores and the position of the loop over
\* dialect_patterns.items() (detect_dialect), converted_text and the
\* position of the loop over rules.items() (suggest_dialect_conversion).
FreshFrame ==
    [scores |-> <<>>, converted_text |-> <<>>, i |-> 1]

\* A caller: where it is in its call, the call, its result, and whether
\* another caller was in the middle of a call during this one.
IdleCaller ==
    [pc |-> "idle", call |-> NoCall, ret |-> NoResult, during |-> FALSE]

InitCallers ==
    /\ callers = [c \in Callers |-> IdleCaller]
    /\ frames = [c \in Callers |-> FreshFrame]

Init ==
    /\ dialect_patterns = InitialDialectPatterns
    /\ weights = InitialWeights
    /\ pc = "idle"
    /\ call = NoCall
    /\ scores = <<>>
    /\ ret = NoResult
    /\ InitCallers
    /\ tts = NoTTS
    /\ manager = NoManager
    /\ server = NoServer
    /\ enhanced = NoEnhanced

DetectDialect ==
    /\ pc = "idle"
    /\ \E text \in DetectArgs, confidence_threshold \in Thresholds :
          LET r == detect_dialect(text, confidence_threshold)
          IN  /\ call' = [op |-> "detect_dialect", text |-> text,
                          confidence_threshold |-> confidence_threshold,
                          target_dialect |-> PyNone]
              /\ scores' = r.scores
              /\ ret' = r.ret
    /\ pc' = "returned"
    /\ UNCHANGED <<dialect_patterns, weights, callerVars, ttsVars, managerVars, serverVars, enhancedVars>>

SuggestDialectConversion ==
    /\ pc = "idle"
    /\ \E text \in ConvertArgs, target_dialect \in TargetArgs :
          /\ call' = [op |-> "suggest_dialect_conversion", text |-> text,
                      confidence_threshold |-> Zero, target_dialect |-> target_dialect]
          /\ ret' = suggest_dialect_conversion(text, target_dialect)
    /\ scores' = <<>>
    /\ pc' = "returned"
    /\ UNCHANGED <<dialect_patterns, weights, callerVars, ttsVars, managerVars, serverVars, enhancedVars>>

GetDialectInfo ==
    /\ pc = "idle"
    /\ \E dialect \in TargetArgs :
          LET r == get_dialect_info(dialect)
          IN  /\ call' = [op |-> "get_dialect_info", text |-> PyNone,
                          confidence_threshold |-> Zero, target_dialect |-> dialect]
              /\ ret' = r.ret
              /\ dialect_patterns' = r.dialect_patterns
    /\ scores' = <<>>
    /\ pc' = "returned"
    /\ UNCHANGED <<weights, callerVars, ttsVars, managerVars, serverVars, enhancedVars>>

\* The caller takes the result; the detector is ready for the next call.
Return ==
    /\ pc = "returned"
    /\ pc' = "idle"
    /\ call' = NoCall
    /\ scores' = <<>>
    /\ ret' = NoResult
    /\ UNCHANGED <<dialect_patterns, weights, callerVars, ttsVars, managerVars, serverVars, enhancedVars>>

Next ==
    \/ DetectDialect
    \/ SuggestDialectConversion
    \/ GetDialectInfo
    \/ Return

Spec ==
    Init /\ [][Next]_vars

(***************************************************************************)
(* Construction.  __init__ takes no argument: the profile table is the     *)
(* static data written in its body (lines 38-117), one DialectPattern(...) *)
(* call per dialect.  The tables below are the shipped one and two edits   *)
(* of it; `omitted` holds the keywords left out of a DialectPattern(...)   *)
(* call.  __init__ stores what it is written with and checks nothing; a    *)
(* DialectPattern(...) call without one of its four fields raises          *)
(* TypeError (the dataclass of lines 25-31 has no defaults).               *)
(***************************************************************************)
TableOf(patterns, omitted) ==
    [k \in 1..Len(patterns) |->
        [dialect |-> patterns[k].dialect, pattern |-> patterns[k].pattern,
         omitted |-> IF patterns[k].dialect \in omitted
                     THEN {"unique_expressions"} ELSE {}]]

ShippedTable ==
    TableOf(InitialDialectPatterns, {})

\* The shipped table with unique_expressions=[] for JEJU.
EmptyUniqueTable ==
    [k \in 1..Len(ShippedTable) |->
        IF ShippedTable[k].dialect = JEJU
        THEN [ShippedTable[k] EXCEPT !.pattern.unique_expressions = <<>>]
        ELSE ShippedTable[k]]

\* The shipped table with the unique_expressions keyword left out for JEJU.
OmittedUniqueTable ==
    TableOf(InitialDialectPatterns, {JEJU})

ProfileTables ==
    {ShippedTable, EmptyUniqueTable, OmittedUniqueTable}

NoWeights ==
    [vocabulary |-> Zero, grammar |-> Zero, pronunciation |-> Zero,
     unique_expressions |-> Zero]

InitProfiles ==
    /\ dialect_patterns = <<>>
    /\ weights = NoWeights
    /\ pc = "unconstructed"
    /\ call = NoCall
    /\ scores = <<>>
    /\ ret = NoResult
    /\ InitCallers
    /\ tts = NoTTS
    /\ manager = NoManager
    /\ server = NoServer
    /\ enhanced = NoEnhanced

\* DialectDetector(): lines 36-125.
Construct ==
    /\ pc = "unconstructed"
    /\ \E table \in ProfileTables :
          IF \E k \in 1..Len(table) : table[k].omitted # {}
          THEN /\ pc' = "failed"
               /\ ret' = Raised("TypeError")
               /\ UNCHANGED <<dialect_patterns, weights>>
          ELSE /\ dialect_patterns' =
                     [k \in 1..Len(table) |->
                         [dialect |-> table[k].dialect, pattern |-> table[k].pattern]]
               /\ weights' = InitialWeights
               /\ pc' = "idle"
               /\ ret' = NoResult
    /\ UNCHANGED <<call, scores, callerVars, ttsVars, managerVars, serverVars, enhancedVars>>

NextProfiles ==
    \/ Construct
    \/ DetectDialect
    \/ SuggestDialectConversion
    \/ GetDialectInfo
    \/ Return

SpecProfiles ==
    InitProfiles /\ [][NextProfiles]_vars

(***************************************************************************)
(* Several callers on one detector, without locks.  Each call runs in      *)
(* steps; between two steps of one caller the others may take any number   *)
(* of steps.  A step is one iteration of a loop, which reads               *)
(* self.dialect_patterns and self.weights; the code around the loops       *)
(* touches the locals and the arguments of the call only.                  *)
(***************************************************************************)
CallerDetectInputs ==
    {<<PyStr(<<"ge_4E2A", "neng_80FD">>), <<1, 10>>>>,
     <<PyStr(TieText), <<1, 10>>>>,
     <<PyStr(<<" ">>), DefaultThreshold>>}

CallerConvertInputs ==
    {<<PyStr(<<"zen_600E", "me_4E48", "yang_6837">>), PyEnum(SICHUAN)>>,
     <<PyStr(<<"hen_5F88", "hao_597D">>), PyEnum(JEJU)>>}

CallerInfoInputs ==
    {PyEnum(SHANGHAI)}

\* The frame that holds the locals of the call of caller c: every call has
\* its own.
\* Variant of FrameOf: scores, converted_text and the loop positions are
\* attributes of the detector, one for all callers.
SharedFrame(c) == 1

FrameOf(c) == c

MidCall(c) ==
    callers[c].pc \in {"scoring", "rewriting"}

\* Caller c took a step of its call: the callers in the middle of a call,
\* and c if any other is, have run together with another.
Observe(cs, c) ==
    [d \in Callers |->
        IF d = c
        THEN [cs[d] EXCEPT !.during = @ \/ \E e \in Callers \ {c} : MidCall(e)]
        ELSE IF MidCall(d) THEN [cs[d] EXCEPT !.during = TRUE]
        ELSE cs[d]]

\* detect_dialect up to the loop (lines 138-141).
CallDetect(c) ==
    /\ callers[c].pc = "idle"
    /\ \E in \in CallerDetectInputs :
          LET text == in[1]
              cl == [op |-> "detect_dialect", text |-> text,
                     confidence_threshold |-> in[2], target_dialect |-> PyNone]
          IN  IF ~Truthy(text)
              THEN /\ callers' = Observe([callers EXCEPT ![c].pc = "done", ![c].call = cl,
                                            ![c].ret = Returned(STANDARD, Zero, NoText)], c)
                   /\ UNCHANGED frames
              ELSE IF text.type # "str"
              THEN /\ callers' = Observe([callers EXCEPT ![c].pc = "done", ![c].call = cl,
                                            ![c].ret = Raised("AttributeError")], c)
                   /\ UNCHANGED frames
              ELSE IF Strip(text.items) = <<>>
              THEN /\ callers' = Observe([callers EXCEPT ![c].pc = "done", ![c].call = cl,
                                            ![c].ret = Returned(STANDARD, Zero, NoText)], c)
                   /\ UNCHANGED frames
              ELSE /\ callers' = Observe([callers EXCEPT ![c].pc = "scoring", ![c].call = cl], c)
                   /\ frames' = [frames EXCEPT ![FrameOf(c)] = FreshFrame]
    /\ UNCHANGED <<dialect_patterns, weights, callVars, ttsVars, managerVars, serverVars, enhancedVars>>

\* One iteration of the loop of lines 142-148.
ScoreStep(c) ==
    /\ callers[c].pc = "scoring"
    /\ LET f == frames[FrameOf(c)]
       IN  /\ f.i <= Len(dialect_patterns)
           /\ LET item == dialect_patterns[f.i]
                  sc == IF item.dialect = STANDARD THEN f.scores
                        ELSE Append(f.scores,
                                    [dialect |-> item.dialect,
                                     score |-> _calculate_dialect_score(
                                                   callers[c].call.text.items, item.pattern)])
              IN  frames' = [frames EXCEPT ![FrameOf(c)] =
                                [f EXCEPT !.scores = sc, !.i = f.i + 1]]
    /\ callers' = Observe(callers, c)
    /\ UNCHANGED <<dialect_patterns, weights, callVars, ttsVars, managerVars, serverVars, enhancedVars>>

\* The end of detect_dialect (lines 150-161).
ChooseDialect(c) ==
    /\ callers[c].pc = "scoring"
    /\ LET f == frames[FrameOf(c)]
           sc == f.scores
       IN  /\ f.i > Len(dialect_patterns)
           /\ LET r == IF sc = <<>> THEN Returned(STANDARD, Zero, NoText)
                       ELSE LET best == MaxKey(sc)
                            IN  IF BelowThreshold(sc[best].score,
                                                  callers[c].call.confidence_threshold)
                                THEN Returned(STANDARD, sc[best].score, NoText)
                                ELSE Returned(sc[best].dialect, sc[best].score, NoText)
              IN  callers' = Observe([callers EXCEPT ![c].pc = "done", ![c].ret = r], c)
    /\ UNCHANGED <<frames, dialect_patterns, weights, callVars, ttsVars, managerVars, serverVars, enhancedVars>>

\* suggest_dialect_conversion up to the loop (lines 219-269).
CallConvert(c) ==
    /\ callers[c].pc = "idle"
    /\ \E in \in CallerConvertInputs :
          LET text == in[1]
              target_dialect == in[2]
              cl == [op |-> "suggest_dialect_conversion", text |-> text,
                     confidence_threshold |-> Zero, target_dialect |-> target_dialect]
          IN  IF target_dialect = PyEnum(STANDARD) \/ ~InConversionRules(target_dialect)
              THEN /\ callers' = Observe([callers EXCEPT ![c].pc = "done", ![c].call = cl,
                                            ![c].ret = Returned("", Zero, text)], c)
                   /\ UNCHANGED frames
              ELSE /\ callers' = Observe([callers EXCEPT ![c].pc = "rewriting", ![c].call = cl], c)
                   /\ frames' = [frames EXCEPT ![FrameOf(c)] =
                                     [FreshFrame EXCEPT !.converted_text = text.items]]
    /\ UNCHANGED <<dialect_patterns, weights, callVars, ttsVars, managerVars, serverVars, enhancedVars>>

\* One iteration of the loop of lines 271-272.
RuleStep(c) ==
    /\ callers[c].pc = "rewriting"
    /\ LET f == frames[FrameOf(c)]
           rules == RulesOf(callers[c].call.target_dialect)
       IN  /\ f.i <= Len(rules)
           /\ frames' = [frames EXCEPT ![FrameOf(c)] =
                             [f EXCEPT !.converted_text =
                                          Replace(f.converted_text, rules[f.i][1], rules[f.i][2]),
                                       !.i = f.i + 1]]
    /\ callers' = Observe(callers, c)
    /\ UNCHANGED <<dialect_patterns, weights, callVars, ttsVars, managerVars, serverVars, enhancedVars>>

\* The end of suggest_dialect_conversion (line 274).
ReturnConverted(c) ==
    /\ callers[c].pc = "rewriting"
    /\ LET f == frames[FrameOf(c)]
       IN  /\ f.i > Len(RulesOf(callers[c].call.target_dialect))
           /\ callers' = Observe([callers EXCEPT ![c].pc = "done",
                                     ![c].ret = Returned("", Zero, PyStr(f.converted_text))], c)
    /\ UNCHANGED <<frames, dialect_patterns, weights, callVars, ttsVars, managerVars, serverVars, enhancedVars>>

\* get_dialect_info has no loop: one step.
CallGetDialectInfo(c) ==
    /\ callers[c].pc = "idle"
    /\ \E dialect \in CallerInfoInputs :
          LET r == get_dialect_info(dialect)
          IN  /\ callers' = Observe([callers EXCEPT
                                       ![c].pc = "done",
                                       ![c].call = [op |-> "get_dialect_info", text |-> PyNone,
                                                    confidence_threshold |-> Zero,
                                                    target_dialect |-> dialect],
                                       ![c].ret = r.ret], c)
              /\ dialect_patterns' = r.dialect_patterns
    /\ UNCHANGED <<frames, weights, callVars, ttsVars, managerVars, serverVars, enhancedVars>>

\* The caller takes its result; the frame of the call is gone.
CallerReturn(c) ==
    /\ callers[c].pc = "done"
    /\ callers' = [callers EXCEPT ![c] = IdleCaller]
    /\ UNCHANGED <<frames, dialect_patterns, weights, callVars, ttsVars, managerVars, serverVars, enhancedVars>>

NextCallers ==
    \E c \in Callers :
       \/ CallDetect(c)
       \/ ScoreStep(c)
       \/ ChooseDialect(c)
       \/ CallConvert(c)
       \/ RuleStep(c)
       \/ ReturnConverted(c)
       \/ CallGetDialectInfo(c)
       \/ CallerReturn(c)

SpecCallers ==
    Init /\ [][NextCallers]_vars

(***************************************************************************)
(* UnifiedTTS: constructed with a TTSConfig (its __init__ constructs the    *)
(* detector), then synthesize is called.                                   *)
(***************************************************************************)
TTSConfigs ==
    {TTSConfig(v, a, t) : v \in BOOLEAN, a \in BOOLEAN, t \in {<<1, 10>>, DefaultThreshold}}

\* 今朝蛮好阿拉个能: detected as SHANGHAI with the default threshold.
ShanghaiText ==
    <<"jin_4ECA", "zhao_671D", "man_86EE", "hao_597D", "a_963F", "la_62C9", "ge_4E2A",
      "neng_80FD">>

\* 个辰光困觉伊拉个能个么: detected as SHANGHAI with the default threshold
\* (score 1846/5985), and none of the shanghai_indicators occurs in it.
PlainShanghaiText ==
    <<"ge_4E2A", "chen_8FB0", "guang_5149", "kun_56F0", "jiao_89C9", "yi_4F0A", "la_62C9", "ge_4E2A", "neng_80FD", "ge_4E2A", "me_4E48">>

SynthesizeTexts ==
    {PyStr(DemoStandard1), PyStr(DemoShanghai1), PyStr(ShanghaiText),
     PyStr(PlainShanghaiText), PyStr(DemoSichuan), PyStr(<<>>), PyNone, PyInt(5)}

DialectArgs ==
    {PyNone} \cup {PyEnum(m) : m \in DialectType}

InitTTS ==
    /\ dialect_patterns = InitialDialectPatterns
    /\ weights = InitialWeights
    /\ pc = "idle"
    /\ call = NoCall
    /\ scores = <<>>
    /\ ret = NoResult
    /\ InitCallers
    /\ tts = NoTTS
    /\ manager = NoManager
    /\ server = NoServer
    /\ enhanced = NoEnhanced

\* UnifiedTTS(config): lines 35-71.
UnifiedTTSInit ==
    /\ tts.pc = "unconstructed"
    /\ \E config \in TTSConfigs :
          tts' = [tts EXCEPT !.pc = "idle", !.config = config]
    /\ UNCHANGED <<dialect_patterns, weights, callVars, callerVars, managerVars, serverVars, enhancedVars>>

Synthesize ==
    /\ tts.pc = "idle"
    /\ \E text \in SynthesizeTexts, dialect \in DialectArgs, force_dialect \in BOOLEAN,
          google \in {"ok", "raise"}, convert \in {"converted", "standard", "raise"} :
          LET r == synthesize(tts.config, text, dialect, force_dialect, google, convert)
          IN  tts' = [tts EXCEPT !.pc = "returned",
                                 !.call = [text |-> text, dialect |-> dialect,
                                           force_dialect |-> force_dialect,
                                           google |-> google, convert |-> convert],
                                 !.trace = r.trace,
                                 !.dialect = r.dialect,
                                 !.ret = r.ret]
    /\ UNCHANGED <<dialect_patterns, weights, callVars, callerVars, managerVars, serverVars, enhancedVars>>

\* The caller takes the result.
SynthesizeReturn ==
    /\ tts.pc = "returned"
    /\ tts' = [NoTTS EXCEPT !.pc = "idle", !.config = tts.config]
    /\ UNCHANGED <<dialect_patterns, weights, callVars, callerVars, managerVars, serverVars, enhancedVars>>

NextTTS ==
    \/ UnifiedTTSInit
    \/ Synthesize
    \/ SynthesizeReturn

SpecTTS ==
    InitTTS /\ [][NextTTS]_vars

(***************************************************************************)
(* TTSManager: the module constructs tts_manager when it is imported       *)
(* (line 245); after that TTSManager(), initialize_tts and get_tts are     *)
(* called in any order.  UnifiedTTS(config) returns a new object or        *)
(* raises (its __init__ constructs the service and the converter).         *)
(***************************************************************************)
\* The number of UnifiedTTS objects constructed.
MaxInitializes == 4

InitManager ==
    /\ dialect_patterns = InitialDialectPatterns
    /\ weights = InitialWeights
    /\ pc = "idle"
    /\ call = NoCall
    /\ scores = <<>>
    /\ ret = NoResult
    /\ InitCallers
    /\ tts = NoTTS
    /\ manager = NoManager
    /\ server = NoServer
    /\ enhanced = NoEnhanced

\* TTSManager(): __new__, then __init__ on what it returned.
TTSManagerCall ==
    /\ LET m == TTSManager__init__(TTSManager__new__(manager))
       IN  manager' = [m EXCEPT !.op = "TTSManager", !.exc = "",
                                !.ret = [NoObject EXCEPT !.id = m._instance]]
    /\ UNCHANGED <<dialect_patterns, weights, callVars, callerVars, ttsVars, serverVars, enhancedVars>>

\* initialize_tts(config): tts_manager.initialize(config), lines 232-235.
InitializeTTS ==
    /\ manager._instance # 0
    /\ manager.made < MaxInitializes
    /\ \E config \in TTSConfigs, outcome \in {"ok", "raise"} :
          IF outcome = "raise"
          THEN manager' = [manager EXCEPT !.op = "initialize", !.exc = "Exception",
                                          !.ret = NoObject]
          ELSE LET obj == [id |-> manager.made + 1, config |-> config]
               IN  manager' = [manager EXCEPT !._tts = obj, !.made = obj.id, !.latest = obj,
                                              !.op = "initialize", !.exc = "",
                                              !.ret = NoObject]
    /\ UNCHANGED <<dialect_patterns, weights, callVars, callerVars, ttsVars, serverVars, enhancedVars>>

\* get_tts(): tts_manager.get_tts(), lines 237-241.
GetTTS ==
    /\ manager._instance # 0
    /\ IF manager._tts = NoObject
       THEN manager' = [manager EXCEPT !.op = "get_tts", !.exc = "RuntimeError",
                                       !.ret = NoObject]
       ELSE manager' = [manager EXCEPT !.op = "get_tts", !.exc = "", !.ret = manager._tts]
    /\ UNCHANGED <<dialect_patterns, weights, callVars, callerVars, ttsVars, serverVars, enhancedVars>>

NextManager ==
    \/ TTSManagerCall
    \/ InitializeTTS
    \/ GetTTS

SpecManager ==
    InitManager /\ [][NextManager]_vars

(***************************************************************************)
(* The mock server: POST /voice/convert requests are handled one after     *)
(* another.  The handler validates the request, then                       *)
(* generate_real_tts_audio runs the providers; each provider either        *)
(* returns audio or raises, and its except clause calls the next one.      *)
(***************************************************************************)
\* The lengths of the texts sent: empty, one character, and the lengths
\* around the limit.
TextLengths ==
    {0, 1, MaxTextLength - 1, MaxTextLength, MaxTextLength + 1}

\* c * n
Repeat(c, n) ==
    [i \in 1..n |-> c]

\* The values of the key 'text': strings, a JSON number and JSON null.
RequestTexts ==
    {PyStr(Repeat("a", n)) : n \in TextLengths} \cup {PyInt(123), PyNone}

\* The values of the key 'target_dialect': three of AVAILABLE_DIALECTS
\* (the first, one in the middle, the last) and one that is not in it.
RequestDialects ==
    {"standard", "osaka", "tsugaru", "shanghai"}

\* The bodies sent: JSON null, and objects with any subset of the
\* required fields.
Requests ==
    {JsonNull} \cup
    {JsonObject(has,
                IF "text" \in has THEN t ELSE PyNone,
                IF "source_language" \in has THEN "ja" ELSE "",
                IF "target_dialect" \in has THEN d ELSE "") :
        has \in SUBSET {"text", "source_language", "target_dialect"},
        t \in RequestTexts, d \in RequestDialects}

InitServer ==
    /\ dialect_patterns = InitialDialectPatterns
    /\ weights = InitialWeights
    /\ pc = "idle"
    /\ call = NoCall
    /\ scores = <<>>
    /\ ret = NoResult
    /\ InitCallers
    /\ tts = NoTTS
    /\ manager = NoManager
    /\ server = NoServer
    /\ enhanced = NoEnhanced

\* base64.b64encode(audio_data).decode('utf-8') (line 464).
b64encode(audio_data) ==
    [type |-> "str", produced_by |-> audio_data.produced_by]

\* convert_voice, lines 423-458: the request is answered at once when a
\* check fails or raises, else generate_real_tts_audio is called, which
\* calls asyncio.run(generate_edge_tts_audio(text, dialect)).
ConvertVoice ==
    /\ server.pc = "idle"
    /\ \E data \in Requests :
          IF Validate(data) # NoResponse
          THEN server' = [NoServer EXCEPT !.pc = "responded", !.data = data,
                                          !.response = Validate(data)]
          ELSE server' = [NoServer EXCEPT !.pc = "generate_edge_tts_audio", !.data = data,
                                          !.called = <<"generate_edge_tts_audio">>]
    /\ UNCHANGED <<dialect_patterns, weights, callVars, callerVars, ttsVars, managerVars,
                   enhancedVars>>

\* The provider raised: its except clause calls the next provider.
Fallback(provider) ==
    server' = [server EXCEPT !.failed = @ \cup {provider},
                             !.pc = except_fallback(provider),
                             !.called = Append(@, except_fallback(provider))]

\* generate_edge_tts_audio under asyncio.run (lines 161-239).  Edge TTS
\* answers, or raises inside the coroutine (except clause of lines
\* 236-239), or asyncio.run itself raises (except clause of lines 166-169).
GenerateEdgeTTSAudio ==
    /\ server.pc = "generate_edge_tts_audio"
    /\ \E outcome \in {"ok", "raise", "run_raise"}, wav \in {"ok", "raise"} :
          IF outcome = "ok"
          THEN server' = [server EXCEPT !.pc = "generated",
                              !.audio = convert_mp3_to_wav(Bytes("edge_tts"), wav)]
          ELSE Fallback("generate_edge_tts_audio")
    /\ UNCHANGED <<dialect_patterns, weights, callVars, callerVars, ttsVars, managerVars,
                   enhancedVars>>

\* generate_pyttsx3_audio (lines 241-302).
GeneratePyttsx3Audio ==
    /\ server.pc = "generate_pyttsx3_audio"
    /\ \E outcome \in {"ok", "raise"}, wav \in {"ok", "raise"} :
          IF outcome = "ok"
          THEN server' = [server EXCEPT !.pc = "generated",
                              !.audio = convert_to_browser_compatible_wav(Bytes("pyttsx3"), wav)]
          ELSE Fallback("generate_pyttsx3_audio")
    /\ UNCHANGED <<dialect_patterns, weights, callVars, callerVars, ttsVars, managerVars,
                   enhancedVars>>

\* generate_gtts_audio (lines 304-329).
GenerateGTTSAudio ==
    /\ server.pc = "generate_gtts_audio"
    /\ \E outcome \in {"ok", "raise"}, wav \in {"ok", "raise"} :
          IF outcome = "ok"
          THEN server' = [server EXCEPT !.pc = "generated",
                              !.audio = convert_mp3_to_wav(Bytes("gtts"), wav)]
          ELSE Fallback("generate_gtts_audio")
    /\ UNCHANGED <<dialect_patterns, weights, callVars, callerVars, ttsVars, managerVars,
                   enhancedVars>>

\* generate_simple_audio (lines 360-404): numpy and wave only, nothing in
\* it raises for a str text.
GenerateSimpleAudio ==
    /\ server.pc = "generate_simple_audio"
    /\ server' = [server EXCEPT !.pc = "generated",
                                !.audio = Bytes("generate_simple_audio")]
    /\ UNCHANGED <<dialect_patterns, weights, callVars, callerVars, ttsVars, managerVars,
                   enhancedVars>>

\* convert_voice, lines 460-481: the successful response.  Its keys
\* 'duration' and 'conversion_info' are not modelled.
Respond ==
    /\ server.pc = "generated"
    /\ server' = [server EXCEPT !.pc = "responded",
                      !.response = Response(200, TRUE, "", "", server.data.target_dialect,
                                            server.data.text, b64encode(server.audio))]
    /\ UNCHANGED <<dialect_patterns, weights, callVars, callerVars, ttsVars, managerVars,
                   enhancedVars>>

\* The response has been sent; the server waits for the next request.
NextRequest ==
    /\ server.pc = "responded"
    /\ server' = NoServer
    /\ UNCHANGED <<dialect_patterns, weights, callVars, callerVars, ttsVars, managerVars,
                   enhancedVars>>

\* The steps of a request that is being handled.
HandlerStep ==
    \/ GenerateEdgeTTSAudio
    \/ GeneratePyttsx3Audio
    \/ GenerateGTTSAudio
    \/ GenerateSimpleAudio
    \/ Respond

NextServer ==
    \/ ConvertVoice
    \/ HandlerStep
    \/ NextRequest

\* The handler runs on a thread of its own that is not starved, and a
\* provider either returns or raises: a handler that can take a step
\* takes it.
SpecServer ==
    InitServer /\ [][NextServer]_vars /\ WF_vars(HandlerStep)

(***************************************************************************)
(* suggest_dialect_conversion on texts built from the shipped maps: every  *)
(* key with every character of the keys (or nothing) before and after it,  *)
(* every two keys side by side, every value, and every value beside a key. *)
(***************************************************************************)
KeyChars(rules) ==
    UNION {{rules[i][1][k] : k \in 1..Len(rules[i][1])} : i \in 1..Len(rules)}

Around(rules) ==
    {<<>>} \cup {<<c>> : c \in KeyChars(rules)}

RuleTexts(rules) ==
    {a \o rules[i][1] \o b : i \in 1..Len(rules), a \in Around(rules), b \in Around(rules)}
      \cup {rules[i][1] \o rules[j][1] : i \in 1..Len(rules), j \in 1..Len(rules)}
      \cup {rules[i][2] : i \in 1..Len(rules)}
      \cup {rules[i][2] \o rules[j][1] : i \in 1..Len(rules), j \in 1..Len(rules)}
      \cup {rules[i][1] \o rules[j][2] : i \in 1..Len(rules), j \in 1..Len(rules)}

\* The targets that have a conversion map.
RuleTargets ==
    {conversion_rules[i].dialect : i \in 1..Len(conversion_rules)}

\* suggest_dialect_conversion(text, target_dialect) on a text of RuleTexts.
SuggestRuleConversion ==
    /\ pc = "idle"
    /\ \E d \in RuleTargets :
          \E s \in RuleTexts(RulesOf(PyEnum(d))) :
             /\ call' = [op |-> "suggest_dialect_conversion", text |-> PyStr(s),
                         confidence_threshold |-> Zero, target_dialect |-> PyEnum(d)]
             /\ ret' = suggest_dialect_conversion(PyStr(s), PyEnum(d))
    /\ scores' = <<>>
    /\ pc' = "returned"
    /\ UNCHANGED <<dialect_patterns, weights, callerVars, ttsVars, managerVars, serverVars, enhancedVars>>

NextRules ==
    \/ SuggestRuleConversion
    \/ Return

SpecRules ==
    Init /\ [][NextRules]_vars

(***************************************************************************)
(* POST /convert-text: requests are answered one after another.  The       *)
(* texts sent are the keys and the values of vocabulary_map, the empty     *)
(* text, romanised texts for the phonetic rules, and a JSON number.        *)
(***************************************************************************)
VocabularyKeys ==
    {vocabulary_map[i][1] : i \in 1..Len(vocabulary_map)}

ConvertTextTexts ==
    {PyStr(s) : s \in VocabularyKeys \cup {vocabulary_map[i][2] : i \in 1..Len(vocabulary_map)}
                        \cup {<<>>, <<"z", "h", "a", "n">>, <<"x", "i", "a", "n">>}}
        \cup {PyInt(5)}

InitEnhanced ==
    /\ dialect_patterns = InitialDialectPatterns
    /\ weights = InitialWeights
    /\ pc = "idle"
    /\ call = NoCall
    /\ scores = <<>>
    /\ ret = NoResult
    /\ InitCallers
    /\ tts = NoTTS
    /\ manager = NoManager
    /\ server = NoServer
    /\ enhanced = NoEnhanced

\* The handler of POST /convert-text.
ConvertText ==
    /\ enhanced.pc = "idle"
    /\ \E text \in ConvertTextTexts :
          enhanced' = [pc |-> "responded", text |-> text, response |-> convert_text(text)]
    /\ UNCHANGED <<dialect_patterns, weights, callVars, callerVars, ttsVars, managerVars,
                   serverVars>>

\* The response has been sent.
ConvertTextDone ==
    /\ enhanced.pc = "responded"
    /\ enhanced' = NoEnhanced
    /\ UNCHANGED <<dialect_patterns, weights, callVars, callerVars, ttsVars, managerVars,
                   serverVars>>

NextEnhanced ==
    \/ ConvertText
    \/ ConvertTextDone

SpecEnhanced ==
    InitEnhanced /\ [][NextEnhanced]_vars

(***************************************************************************)
(* Properties.  The helpers below state the expected behaviour directly,   *)
(* without using the operators that model the code.                        *)
(***************************************************************************)
DetectReturned ==
    pc = "returned" /\ call.op = "detect_dialect"

ConvertReturned ==
    pc = "returned" /\ call.op = "suggest_dialect_conversion"

\* The text of the call is a str made of whitespace only (or empty).
BlankText ==
    /\ call.text.type = "str"
    /\ \A i \in 1..Len(call.text.items) : call.text.items[i] \in {" ", "\t", "\n", "\r", "\f"}

\* The call was detect_dialect on a str with a non-whitespace character.
ScoredCall ==
    DetectReturned /\ call.text.type = "str" /\ ~BlankText

\* p occurs in s as a substring.
Occurs(p, s) ==
    \E a \in 1..Len(s) : \E b \in a..Len(s) : SubSeq(s, a, b) = p

Hits(patterns, s) ==
    Cardinality({i \in 1..Len(patterns) : Occurs(patterns[i], s)})

RatLess(x, y) ==
    x[1] * y[2] < y[1] * x[2]

DeclarationOrder ==
    <<SHANGHAI, SICHUAN, GYEONGSANG, JEJU>>

ScoreOf(d) ==
    LET i == CHOOSE j \in 1..Len(scores) : scores[j].dialect = d IN scores[i].score

\* The greatest score of the call.
BestScore ==
    LET i == CHOOSE j \in 1..Len(scores) :
                 \A k \in 1..Len(scores) : ~RatLess(scores[j].score, scores[k].score)
    IN  scores[i].score

\* C1: detect_dialect on an empty or whitespace-only text returns
\* (STANDARD, 0.0) whatever the threshold, and scores no profile.
C1_BlankTextIsStandard ==
    (DetectReturned /\ BlankText) =>
        /\ ret = Returned(STANDARD, Zero, NoText)
        /\ scores = <<>>

\* A whitespace-only, non-empty text was classified with threshold 0.
C1_Witness ==
    /\ DetectReturned
    /\ call.text = PyStr(<<" ", " ">>)
    /\ call.confidence_threshold = Zero
    /\ ret.dialect = STANDARD

\* C2: for a non-blank text every profile except STANDARD gets the score
\* (3.0*v + 2.0*g + 1.5*0 + 4.0*u) / 10.5, v, g, u being the fractions of
\* its vocabulary, grammar and unique_expressions entries that occur in
\* the text; STANDARD gets no score.
C2_ScoreFormula ==
    ScoredCall =>
        /\ {scores[i].dialect : i \in 1..Len(scores)} = {SHANGHAI, SICHUAN, GYEONGSANG, JEJU}
        /\ Len(scores) = 4
        /\ \A i \in 1..Len(scores) :
              \E k \in 1..Len(dialect_patterns) :
                 /\ dialect_patterns[k].dialect = scores[i].dialect
                 /\ LET t == call.text.items
                        v == dialect_patterns[k].pattern.vocabulary
                        g == dialect_patterns[k].pattern.grammar
                        u == dialect_patterns[k].pattern.unique_expressions
                        nv == Len(v)
                        ng == Len(g)
                        nu == Len(u)
                    IN  \* score = (6 v + 4 g + 8 u) / 21, cleared of fractions
                        scores[i].score[1] * 21 * nv * ng * nu
                          = scores[i].score[2]
                              * (6 * Hits(v, t) * ng * nu + 4 * Hits(g, t) * nv * nu
                                   + 8 * Hits(u, t) * nv * ng)

\* 个能 was scored: it occurs in the vocabulary, the grammar and the unique
\* expressions of SHANGHAI, so all three fractions are positive.
C2_Witness ==
    /\ DetectReturned
    /\ call.text = PyStr(<<"ge_4E2A", "neng_80FD">>)
    /\ Len(scores) = 4
    /\ scores[1].dialect = SHANGHAI
    /\ RatLess(Zero, scores[1].score)

\* C3: the profile returned at or above the threshold is the first one, in
\* declaration order, that has the greatest score.
C3_FirstDeclaredMaximum ==
    (ScoredCall /\ ~RatLess(BestScore, call.confidence_threshold)) =>
        \E i \in 1..Len(DeclarationOrder) :
           /\ ret.dialect = DeclarationOrder[i]
           /\ ScoreOf(DeclarationOrder[i]) = BestScore
           /\ \A j \in 1..(i - 1) : RatLess(ScoreOf(DeclarationOrder[j]), BestScore)

\* SICHUAN and GYEONGSANG tie with a positive score above the threshold,
\* and SICHUAN, declared first, is returned.
C3_Witness ==
    /\ ScoredCall
    /\ ScoreOf(SICHUAN) = ScoreOf(GYEONGSANG)
    /\ ScoreOf(SICHUAN) = BestScore
    /\ RatLess(Zero, BestScore)
    /\ ~RatLess(BestScore, call.confidence_threshold)
    /\ ret.dialect = SICHUAN

\* C4: with best the greatest score, best >= threshold returns
\* (best_dialect, best) and best < threshold returns (STANDARD, best).
C4_InclusiveThreshold ==
    ScoredCall =>
        /\ ret.kind = "return"
        /\ ret.confidence = BestScore
        /\ ~RatLess(BestScore, call.confidence_threshold) =>
              (ret.dialect # STANDARD /\ ScoreOf(ret.dialect) = BestScore)
        /\ RatLess(BestScore, call.confidence_threshold) => ret.dialect = STANDARD

\* 巴适 scores exactly 0.1 for SICHUAN and is classified with threshold 0.1.
C4_Witness ==
    /\ ScoredCall
    /\ call.text = PyStr(<<"ba_5DF4", "shi_9002">>)
    /\ call.confidence_threshold = <<1, 10>>
    /\ BestScore = call.confidence_threshold
    /\ ret = Returned(SICHUAN, <<1, 10>>, NoText)

\* No vocabulary, grammar or unique-expression entry of a profile other
\* than STANDARD occurs in the text of the call.
NoPatternOccurs ==
    \A k \in 1..Len(dialect_patterns) :
       dialect_patterns[k].dialect # STANDARD =>
          LET pt == dialect_patterns[k].pattern
          IN  Hits(pt.vocabulary, call.text.items) + Hits(pt.grammar, call.text.items)
                + Hits(pt.unique_expressions, call.text.items) = 0

AllScoresZero ==
    \A i \in 1..Len(scores) : scores[i].score = Zero

\* C5 as stated: a text containing no pattern of any profile other than
\* STANDARD scores 0.0 everywhere and is returned as (STANDARD, 0.0) for
\* any threshold.  Fails with threshold 0.0: 0.0 < 0.0 is false.
C5_NoPatternIsStandard_AnyThreshold ==
    (DetectReturned /\ call.text.type = "str" /\ NoPatternOccurs) =>
        /\ AllScoresZero
        /\ ret = Returned(STANDARD, Zero, NoText)

\* C5, amended: a text containing no pattern of any profile other than
\* STANDARD scores 0.0 everywhere; it is returned as (STANDARD, 0.0) for
\* every threshold > 0, and, when not blank, as (SHANGHAI, 0.0) for a
\* threshold <= 0.
C5_NoPatternIsStandard_PositiveThreshold ==
    (DetectReturned /\ call.text.type = "str" /\ NoPatternOccurs) =>
        /\ AllScoresZero
        /\ RatLess(Zero, call.confidence_threshold) => ret = Returned(STANDARD, Zero, NoText)
        /\ (~RatLess(Zero, call.confidence_threshold) /\ ~BlankText) =>
              ret = Returned(SHANGHAI, Zero, NoText)

\* 好好 matches no pattern, was scored, and was classified with the default
\* threshold.
C5_Witness ==
    /\ ScoredCall
    /\ call.text = PyStr(<<"hao_597D", "hao_597D">>)
    /\ NoPatternOccurs
    /\ Len(scores) = 4
    /\ call.confidence_threshold = DefaultThreshold
    /\ ret.dialect = STANDARD

\* C6 as stated: an argument that is not a str never makes detect_dialect
\* raise; the result is (STANDARD, 0.0).  Fails for 5 and for ["x"].
C6_NonTextIsStandard ==
    (DetectReturned /\ call.text.type # "str") => ret = Returned(STANDARD, Zero, NoText)

\* The dialects that have a profile in dialect_patterns.
ConfiguredProfiles ==
    {PyEnum(dialect_patterns[k].dialect) : k \in 1..Len(dialect_patterns)}

\* C7 as stated: a target_dialect outside the configured profiles makes
\* suggest_dialect_conversion raise UnknownDialectError.  Fails: the text
\* is returned.
C7_UnknownTargetRaises ==
    (ConvertReturned /\ call.target_dialect \notin ConfiguredProfiles) =>
        (ret.kind = "raise" /\ ret.exc = "UnknownDialectError")

\* C8: for the targets GYEONGSANG and JEJU, which have a profile but no
\* conversion map, the text is returned unchanged and nothing is raised.
C8_NoMapReturnsText ==
    (ConvertReturned /\ call.target_dialect \in {PyEnum(GYEONGSANG), PyEnum(JEJU)}) =>
        ret = Returned("", Zero, call.text)

\* 很好, a key of both conversion maps, was rewritten to JEJU.
C8_Witness ==
    /\ ConvertReturned
    /\ call.text = PyStr(<<"hen_5F88", "hao_597D">>)
    /\ call.target_dialect = PyEnum(JEJU)
    /\ ret.kind = "return"

\* C9: for the target STANDARD the text is returned unchanged, also when
\* it contains keys of the conversion maps.
C9_StandardReturnsText ==
    (ConvertReturned /\ call.target_dialect = PyEnum(STANDARD)) =>
        ret = Returned("", Zero, call.text)

\* 家很好, which contains the keys 家 and 很好, was rewritten to STANDARD.
C9_Witness ==
    /\ ConvertReturned
    /\ call.text = PyStr(<<"jia_5BB6", "hen_5F88", "hao_597D">>)
    /\ call.target_dialect = PyEnum(STANDARD)
    /\ ret.text = call.text

\* Replace-all of old by new in s from position from on: the leftmost
\* occurrence at or after from is replaced and the search resumes behind
\* it, so the occurrences replaced do not overlap.
RECURSIVE ReplaceAllFrom(_, _, _, _)
ReplaceAllFrom(s, old, new, from) ==
    LET occ == {i \in from..(Len(s) - Len(old) + 1) : SubSeq(s, i, i + Len(old) - 1) = old}
    IN  IF occ = {} THEN SubSeq(s, from, Len(s))
        ELSE LET first == CHOOSE i \in occ : \A j \in occ : i <= j
             IN  SubSeq(s, from, first - 1) \o new
                   \o ReplaceAllFrom(s, old, new, first + Len(old))

\* The left fold of replace-all over the first k rules.
RECURSIVE FoldRules(_, _, _)
FoldRules(s, rules, k) ==
    IF k = 0 THEN s
    ELSE ReplaceAllFrom(FoldRules(s, rules, k - 1), rules[k][1], rules[k][2], 1)

\* C10: for a target with a conversion map (SHANGHAI, SICHUAN) the result
\* is the left fold of replace-all over the map's rules in insertion
\* order, each rule working on the text the previous rules produced.
C10_SequentialRewrite ==
    (ConvertReturned /\ call.text.type = "str"
       /\ call.target_dialect \in {PyEnum(SHANGHAI), PyEnum(SICHUAN)}) =>
        LET rules == IF call.target_dialect = PyEnum(SHANGHAI)
                     THEN SHANGHAI_rules ELSE SICHUAN_rules
        IN  ret = Returned("", Zero, PyStr(FoldRules(call.text.items, rules, Len(rules))))

\* 怎么样 rewritten to SICHUAN gives 啷个: the rule for 怎么样 comes before
\* the rule for 怎么 and consumes the text first.
C10_Witness ==
    /\ ConvertReturned
    /\ call.text = PyStr(<<"zen_600E", "me_4E48", "yang_6837">>)
    /\ call.target_dialect = PyEnum(SICHUAN)
    /\ ret.text = PyStr(<<"lang_5577", "ge_4E2A">>)

\* Every profile except STANDARD has a non-empty unique_expressions list.
ValidProfileSet ==
    \A k \in 1..Len(dialect_patterns) :
       dialect_patterns[k].dialect # STANDARD
         => dialect_patterns[k].pattern.unique_expressions # <<>>

C12_ProfilesNeverMutated ==
    /\ dialect_patterns = InitialDialectPatterns
    /\ weights = InitialWeights

\* get_dialect_info(SHANGHAI) returned the counts 19 and 10 and the
\* pronunciation and unique_expressions lists of the profile.
C12_Witness ==
    /\ pc = "returned"
    /\ call.op = "get_dialect_info"
    /\ call.target_dialect = PyEnum(SHANGHAI)
    /\ ret.info.empty = FALSE
    /\ ret.info.vocabulary_count = Len(SHANGHAI_vocabulary)
    /\ ret.info.unique_expressions = SHANGHAI_unique_expressions

\* What the call returns when it runs alone.
Alone(cl) ==
    CASE cl.op = "detect_dialect" -> detect_dialect(cl.text, cl.confidence_threshold).ret
      [] cl.op = "suggest_dialect_conversion" ->
             suggest_dialect_conversion(cl.text, cl.target_dialect)
      [] cl.op = "get_dialect_info" -> get_dialect_info(cl.target_dialect).ret

\* C13: with several callers on one detector, in any interleaving and
\* without locks, every call returns what it returns when run alone.
C13_ConcurrentCallsAsAlone ==
    \A c \in Callers :
       callers[c].pc = "done" => callers[c].ret = Alone(callers[c].call)

\* Caller 1 has classified 오이소巴适得很 as SICHUAN and caller 2 has rewritten
\* 怎么样 to SICHUAN, each while the other was in the middle of its call.
C13_Witness ==
    /\ callers[1].pc = "done" /\ callers[1].during
    /\ callers[1].call.op = "detect_dialect"
    /\ callers[1].call.text = PyStr(TieText)
    /\ callers[1].ret.dialect = SICHUAN
    /\ callers[2].pc = "done" /\ callers[2].during
    /\ callers[2].call.op = "suggest_dialect_conversion"
    /\ callers[2].ret.text # callers[2].call.text

C15_ConfidenceInUnitInterval ==
    (DetectReturned /\ ret.kind = "return") =>
        /\ ~RatLess(ret.confidence, Zero)
        /\ ~RatLess(<<1, 1>>, ret.confidence)
        /\ ret.dialect \in {STANDARD, SHANGHAI, SICHUAN, GYEONGSANG, JEJU}

\* 个能 was classified with threshold 0.1: SHANGHAI with a confidence of about
\* 0.1126, strictly between 0 and 1.
C15_Witness ==
    /\ ScoredCall
    /\ call.text = PyStr(<<"ge_4E2A", "neng_80FD">>)
    /\ ret.dialect = SHANGHAI
    /\ RatLess(Zero, ret.confidence)
    /\ RatLess(ret.confidence, <<1, 1>>)

\* The profile of dialect d.
PatternOf(d) ==
    LET k == CHOOSE j \in 1..Len(dialect_patterns) : dialect_patterns[j].dialect = d
    IN  dialect_patterns[k].pattern

\* The weighted normalized score of dialect d for text t, as a rational
\* that is not reduced: (6 v + 4 g + 8 u) / 21.
WeightedScore(d, t) ==
    LET pt == PatternOf(d)
        nv == Len(pt.vocabulary)
        ng == Len(pt.grammar)
        nu == Len(pt.unique_expressions)
    IN  <<6 * Hits(pt.vocabulary, t) * ng * nu + 4 * Hits(pt.grammar, t) * nv * nu
            + 8 * Hits(pt.unique_expressions, t) * nv * ng,
          21 * nv * ng * nu>>

\* The number of entries of the profile of d that occur in t.
RawMatches(d, t) ==
    LET pt == PatternOf(d)
    IN  Hits(pt.vocabulary, t) + Hits(pt.grammar, t) + Hits(pt.unique_expressions, t)

\* The dialects that are scored: those with a profile, except STANDARD.
Scored ==
    {dialect_patterns[j].dialect : j \in 1..Len(dialect_patterns)} \ {STANDARD}

\* C16: the dialect whose weighted normalized score is strictly the
\* greatest is returned when that score reaches the threshold, whatever the
\* raw numbers of matched entries.
C16_WeightedScoreDecides ==
    ScoredCall =>
        \A d \in Scored :
           LET t == call.text.items
           IN  (/\ \A e \in Scored \ {d} : RatLess(WeightedScore(e, t), WeightedScore(d, t))
                /\ ~RatLess(WeightedScore(d, t), call.confidence_threshold))
                 => ret.dialect = d

\* 侬个伊啥巴适 with threshold 0.1: SHANGHAI matches four entries (score
\* 8/133) and SICHUAN two (score 1/10); SICHUAN is returned.
C16_Witness ==
    /\ ScoredCall
    /\ call.text = PyStr(CountText)
    /\ RawMatches(SHANGHAI, CountText) > RawMatches(SICHUAN, CountText)
    /\ RatLess(WeightedScore(SHANGHAI, CountText), WeightedScore(SICHUAN, CountText))
    /\ ~RatLess(WeightedScore(SICHUAN, CountText), call.confidence_threshold)
    /\ ret.dialect = SICHUAN

\* C17 as stated: 侬好，今朝天气蛮好 with the default threshold 0.3 is
\* returned as SHANGHAI with a confidence of at least 0.3.  Fails: the
\* score is 94/399 and STANDARD is returned.
C17_DemoShanghaiDetected ==
    (DetectReturned /\ call.text = PyStr(DemoShanghai1)
       /\ call.confidence_threshold = DefaultThreshold) =>
        (ret.dialect = SHANGHAI /\ ~RatLess(ret.confidence, <<3, 10>>))

\* The dialect written beside each demo sentence of test_dialect_detection.
Annotated(t) ==
    CASE t = DemoStandard1 -> STANDARD
      [] t = DemoStandard2 -> STANDARD
      [] t = DemoShanghai2 -> SHANGHAI
      [] t = DemoSichuan -> SICHUAN
      [] t = DemoGyeongsang -> GYEONGSANG
      [] t = DemoJeju -> JEJU

\* C18 as stated: with the default threshold every demo sentence is
\* classified as the dialect annotated beside it.  Fails for 阿拉一起去吃饭吧
\* (94/1197) and for 혼저 옵서예 (13/63), both returned as STANDARD.
C18_DemoSentencesAsAnnotated ==
    (DetectReturned /\ call.text.type = "str"
       /\ call.text.items \in DemoTexts \ {DemoShanghai1}
       /\ call.confidence_threshold = DefaultThreshold) =>
        ret.dialect = Annotated(call.text.items)

\* The characters that occur in a key or in a value of the rules.
RuleChars(rules) ==
    UNION {{rules[k][1][i] : i \in 1..Len(rules[k][1])}
             \cup {rules[k][2][i] : i \in 1..Len(rules[k][2])} : k \in 1..Len(rules)}

\* s without the characters of the set chars.
Without(s, chars) ==
    LET Keep(c) == c \notin chars IN SelectSeq(s, Keep)

InTrace(e) ==
    \E k \in 1..Len(tts.trace) : tts.trace[k] = e

\* C20: synthesize consults the detector only when no dialect is given and
\* auto-detection is on, and then uses its result; without auto-detection
\* the dialect is STANDARD.  Only SHANGHAI takes the Shanghai path; every
\* other dialect takes the standard path and is reported as 'standard'.
C20_SynthesizeRouting ==
    tts.pc = "returned" =>
        LET given == tts.call.dialect
            auto == tts.config.auto_dialect_detection
            detected == detect_dialect(tts.call.text, DefaultThreshold).ret
        IN  /\ given # PyNone => (~InTrace("detect_dialect") /\ tts.dialect = given)
            /\ (given = PyNone /\ auto) =>
                   /\ InTrace("detect_dialect")
                   /\ detected.kind = "return" => tts.dialect = PyEnum(detected.dialect)
            /\ (given = PyNone /\ ~auto) =>
                   (~InTrace("detect_dialect") /\ tts.dialect = PyEnum(STANDARD))
            /\ InTrace("_synthesize_shanghai") <=> tts.dialect = PyEnum(SHANGHAI)
            /\ (tts.dialect # PyNone /\ tts.dialect # PyEnum(SHANGHAI)) =>
                   /\ InTrace("_synthesize_standard")
                   /\ ~InTrace("_synthesize_shanghai")
                   /\ tts.ret.dialect = "standard"

\* 今朝蛮好阿拉个能 without a dialect and with auto-detection on was detected
\* as SHANGHAI and took the Shanghai path.
C20_Witness ==
    /\ tts.pc = "returned"
    /\ tts.call.dialect = PyNone
    /\ tts.config.auto_dialect_detection
    /\ tts.call.text = PyStr(ShanghaiText)
    /\ tts.dialect = PyEnum(SHANGHAI)
    /\ InTrace("_synthesize_shanghai")
    /\ tts.ret.dialect = "shanghai"

\* C21 as stated: when synthesize detects the dialect itself, the dialect it
\* routes is the detector's result for the configured
\* TTSConfig.confidence_threshold.  Fails: with confidence_threshold 0.1,
\* 侬好，今朝天气蛮好 (score 94/399) is routed as STANDARD.
C21_ConfiguredThresholdUsed ==
    (/\ tts.pc = "returned"
     /\ tts.call.dialect = PyNone
     /\ tts.config.auto_dialect_detection
     /\ tts.call.text.type = "str") =>
        tts.dialect =
            PyEnum(detect_dialect(tts.call.text, tts.config.confidence_threshold).ret.dialect)

\* The position of the call e in the trace of the synthesize call.
At(e) ==
    CHOOSE k \in 1..Len(tts.trace) : tts.trace[k] = e

\* C22: on the Shanghai path the standard synthesis runs first; when it
\* fails the converter is not called and the failure is the result; when
\* it succeeds and the converter raises, the result is the successful
\* standard result as it was; for a str text a successful standard
\* synthesis is never turned into a failure.
C22_ShanghaiFallsBackToStandard ==
    (tts.pc = "returned" /\ InTrace("_synthesize_shanghai")) =>
        /\ InTrace("_synthesize_standard")
        /\ InTrace("convert_audio") => At("_synthesize_standard") < At("convert_audio")
        /\ tts.call.google = "raise" =>
              /\ ~InTrace("convert_audio")
              /\ tts.ret = Result(FALSE, "standard", "absent", "absent", "absent", "Exception")
        /\ (tts.call.google = "ok" /\ InTrace("convert_audio") /\ tts.call.convert = "raise") =>
              tts.ret = Result(TRUE, "standard", "google_cloud_tts", "standard", "absent", "absent")
        /\ (tts.call.google = "ok" /\ tts.call.text.type = "str") => tts.ret.success

\* 今朝蛮好阿拉个能 went to the Shanghai path, the standard synthesis
\* succeeded, the converter was called and raised, and the result is the
\* standard one.
C22_Witness ==
    /\ tts.pc = "returned"
    /\ tts.call.text = PyStr(ShanghaiText)
    /\ InTrace("_synthesize_shanghai")
    /\ tts.call.google = "ok"
    /\ InTrace("convert_audio")
    /\ tts.call.convert = "raise"
    /\ tts.ret.success
    /\ tts.ret.dialect = "standard"
    /\ tts.ret.converted = "absent"

\* C23 as stated: when synthesize detects SHANGHAI itself, voice conversion
\* is enabled, the standard synthesis succeeds and the converter does not
\* raise, the result has converted True.  Fails: 个辰光困觉伊拉个能个么 is
\* detected as SHANGHAI and holds no indicator, so it is not converted.
C23_DetectedShanghaiIsConverted ==
    (/\ tts.pc = "returned"
     /\ tts.call.dialect = PyNone
     /\ tts.config.auto_dialect_detection
     /\ tts.dialect = PyEnum(SHANGHAI)
     /\ tts.config.voice_conversion_enabled
     /\ tts.call.google = "ok"
     /\ tts.call.convert # "raise") =>
        tts.ret.converted = "True"

\* C24: every TTSManager() call returns the one instance; get_tts raises
\* RuntimeError as long as no initialize has returned, and afterwards
\* returns the UnifiedTTS of the latest initialize that returned, also
\* when TTSManager() was called again in between.
C24_ManagerSingleton ==
    /\ manager.op = "TTSManager" => (manager.ret.id = 1 /\ manager._instance = 1)
    /\ manager.op = "get_tts" =>
          IF manager.latest = NoObject
          THEN manager.exc = "RuntimeError"
          ELSE manager.exc = "" /\ manager.ret = manager.latest
    /\ manager.op = "TTSManager" => manager._tts = manager.latest

\* TTSManager() was called again after the second initialize: the manager
\* still holds the second UnifiedTTS.
C24_Witness ==
    /\ manager.op = "TTSManager"
    /\ manager.latest.id = 2
    /\ manager._tts = manager.latest
    /\ manager.self_initialized = "True"

\* The providers in the order the docstrings and except clauses give them.
ProviderOrder ==
    <<"generate_edge_tts_audio", "generate_pyttsx3_audio", "generate_gtts_audio",
      "generate_simple_audio">>

ExternalProviders ==
    {"generate_edge_tts_audio", "generate_pyttsx3_audio", "generate_gtts_audio"}

\* The providers called so far are the first ones of ProviderOrder, each
\* called once, and every provider before the last one called has failed;
\* only external providers fail; a finished call has produced bytes.
C25_InOrderAfterFailures ==
    /\ Len(server.called) <= Len(ProviderOrder)
    /\ \A k \in 1..Len(server.called) :
          /\ server.called[k] = ProviderOrder[k]
          /\ \A j \in 1..(k - 1) : ProviderOrder[j] \in server.failed
    /\ server.failed \subseteq ExternalProviders
    /\ server.pc = "generated" => server.audio.type = "bytes"

\* C25: generate_real_tts_audio tries Edge TTS, pyttsx3, gTTS and the
\* simple sine synthesis in this order, calls a provider only after every
\* earlier one has failed in that call, and whatever the external
\* providers do, a call that has started ends with audio bytes.
C25_ProviderChainTerminates ==
    /\ [](C25_InOrderAfterFailures)
    /\ (server.pc = "generate_edge_tts_audio") ~>
           (server.pc = "generated" /\ server.audio.type = "bytes")
    /\ (server.pc = "generate_simple_audio") ~>
           (server.pc = "generated" /\ server.audio = Bytes("generate_simple_audio"))

\* All three external providers failed and the sine synthesis produced
\* the audio of the call.
C25_Witness ==
    /\ server.pc = "generated"
    /\ server.failed = ExternalProviders
    /\ server.called = ProviderOrder
    /\ server.audio = Bytes("generate_simple_audio")

\* The request has the three fields, a dialect of AVAILABLE_DIALECTS and a
\* text of at most MaxTextLength characters.
Acceptable(data) ==
    /\ data.type = "dict"
    /\ {"text", "source_language", "target_dialect"} \subseteq data.has
    /\ \E k \in 1..Len(AVAILABLE_DIALECTS) : AVAILABLE_DIALECTS[k] = data.target_dialect
    /\ data.text.type = "str"
    /\ Len(data.text.items) <= MaxTextLength

\* The check a refused request fails first, in the order missing field,
\* unsupported dialect, text too long.
FirstFailedCheck(data) ==
    IF data.type # "dict" \/ ~({"text", "source_language", "target_dialect"} \subseteq data.has)
    THEN "Missing required field"
    ELSE IF \A k \in 1..Len(AVAILABLE_DIALECTS) : AVAILABLE_DIALECTS[k] # data.target_dialect
    THEN "Unsupported dialect"
    ELSE "Text too long"

\* C26: POST /voice/convert synthesizes audio only for a request with the
\* three fields, a dialect of AVAILABLE_DIALECTS and a text of at most 500
\* characters, and echoes its dialect and text; every other request gets
\* status 400 with success False, named after the first check it fails in
\* the order missing field, unsupported dialect, text too long, and no
\* provider is called for it.
C26_OnlyValidRequestsSynthesized ==
    server.pc = "responded" =>
        IF Acceptable(server.data)
        THEN /\ server.response.status = 200
             /\ server.response.success
             /\ server.response.dialect = server.data.target_dialect
             /\ server.response.text = server.data.text
             /\ server.called # <<>>
        ELSE /\ server.response.status = 400
             /\ ~server.response.success
             /\ server.response.error = FirstFailedCheck(server.data)
             /\ server.called = <<>>

\* The rules of the map of the call's target.
RulesOfCall ==
    RulesOf(call.target_dialect)

\* C27: no rule of the shipped SHANGHAI and SICHUAN maps is shadowed by an
\* earlier rule: converting a text that is the key of a rule returns the
\* value of that rule.
C27_NoRuleShadowed ==
    ConvertReturned =>
        \A i \in 1..Len(RulesOfCall) :
            call.text.items = RulesOfCall[i][1] => ret.text = PyStr(RulesOfCall[i][2])

\* 怎么样 was converted for SICHUAN, whose map also has the key 怎么, and
\* the result is 啷个.
C27_Witness ==
    /\ ConvertReturned
    /\ call.target_dialect = PyEnum(SICHUAN)
    /\ call.text = PyStr(<<"zen_600E", "me_4E48", "yang_6837">>)
    /\ ret.text = PyStr(<<"lang_5577", "ge_4E2A">>)

\* C29: rewriting is idempotent on the shipped maps: converting the result
\* of a conversion again, for the same target, returns it unchanged.
C29_RewritingIdempotent ==
    (ConvertReturned /\ ret.kind = "return") =>
        suggest_dialect_conversion(ret.text, call.target_dialect).text = ret.text

\* A character of a text with its origin: of the text given, or produced
\* by a rule.
Original(s) ==
    [k \in 1..Len(s) |-> [c |-> s[k], original |-> TRUE]]

Produced(s) ==
    [k \in 1..Len(s) |-> [c |-> s[k], original |-> FALSE]]

\* old occurs at the head of t, in characters of the text given only.
OriginalMatch(t, old) ==
    /\ old # <<>>
    /\ Len(old) <= Len(t)
    /\ \A k \in 1..Len(old) : t[k].c = old[k] /\ t[k].original

\* One rule of the strict rewrite: leftmost non-overlapping occurrences of
\* old that consist of characters of the text given are replaced.
RECURSIVE StrictReplace(_, _, _)
StrictReplace(t, old, new) ==
    IF t = <<>> THEN <<>>
    ELSE IF OriginalMatch(t, old)
    THEN Produced(new) \o StrictReplace(SubSeq(t, Len(old) + 1, Len(t)), old, new)
    ELSE <<Head(t)>> \o StrictReplace(Tail(t), old, new)

\* The rules i.. applied in order to the characters of the text given.
RECURSIVE StrictRules(_, _, _)
StrictRules(t, rules, i) ==
    IF i > Len(rules) THEN t
    ELSE StrictRules(StrictReplace(t, rules[i][1], rules[i][2]), rules, i + 1)

\* The strict non-cascading rewrite of s.
StrictRewrite(s, rules) ==
    LET t == StrictRules(Original(s), rules, 1)
    IN  [k \in 1..Len(t) |-> t[k].c]

\* C30: on the shipped SHANGHAI and SICHUAN maps the sequential rewrite
\* gives the result of the strict non-cascading rewrite, in which a rule
\* matches characters of the text given only: no later rule matches
\* characters produced by an earlier rule, inside a produced value or
\* across its boundary with the neighbouring text.
C30_CascadingEqualsStrict ==
    (ConvertReturned /\ ret.kind = "return") =>
        ret.text = PyStr(StrictRewrite(call.text.items, RulesOfCall))

\* 很你好 was converted for SHANGHAI: rule 你好 produces 侬好 right after
\* 很, and the later rule 很好 does not match across the boundary.
C30_Witness ==
    /\ ConvertReturned
    /\ call.target_dialect = PyEnum(SHANGHAI)
    /\ call.text = PyStr(<<"hen_5F88", "ni_4F60", "hao_597D">>)
    /\ ret.text = PyStr(<<"hen_5F88", "nong_4FAC", "hao_597D">>)

\* C28: every vocabulary rule of convert_text_to_shanghai is effective:
\* converting the text that is the key of an entry of vocabulary_map
\* yields the value of the entry, also for the keys that contain a
\* shorter key listed before them.
C28_EveryVocabularyRuleEffective ==
    (enhanced.pc = "responded" /\ enhanced.response.status = 200) =>
        \A i \in 1..Len(vocabulary_map) :
            enhanced.text = PyStr(vocabulary_map[i][1]) =>
                enhanced.response.shanghai = PyStr(vocabulary_map[i][2])

====
